---- MODULE Spec2Model ----
(***************************************************************************)
(* Model of the maicrosoft core: the primitive registry (loader + cache),  *)
(* the plan validator (syntax, registry, interface, dependency and policy  *)
(* layers), the policy engine and the n8n compiler.                        *)
(*                                                                         *)
(* Strings are sequences of one-character strings, so that prefix tests    *)
(* (startswith), indexing (primitive_id[0]), case changes and pattern      *)
(* matches are computed, not assumed.                                      *)
(***************************************************************************)
EXTENDS Integers, Sequences, FiniteSets, TLC

VARIABLES source, cache, calls, plan, report, threads, rules

vars == <<source, cache, calls, plan, report, threads, rules>>

(***************************************************************************)
(* Bounds of the explored inputs.                                          *)
(***************************************************************************)
MaxNodes == 3
MaxEdges == 3
MaxDetailNodes == 2
MaxCalls == 4

(***************************************************************************)
(* String helpers.                                                         *)
(***************************************************************************)
\* Python None where a str is expected (PlanNode.primitive_id, node_id).
NoneStr == <<"<None>">>

EmptyStr == <<>>

\* str.startswith(prefix)
StartsWith(s, prefix) ==
    /\ Len(s) >= Len(prefix)
    /\ \A i \in 1..Len(prefix) : s[i] = prefix[i]

\* `sub in s` for strings
Contains(s, sub) ==
    \E k \in 0..(Len(s) - Len(sub)) :
        \A i \in 1..Len(sub) : s[k + i] = sub[i]

SeqToSet(s) == { s[i] : i \in 1..Len(s) }

\* Sequences over S of length lo..hi
SeqsBetween(S, lo, hi) == UNION { [1..n -> S] : n \in lo..hi }

(***************************************************************************)
(* Primitive ids and the registry source tree used as input.               *)
(***************************************************************************)
P001 == <<"P", "0", "0", "1">>
P002 == <<"P", "0", "0", "2">>
P003 == <<"P", "0", "0", "3">>
P004 == <<"P", "0", "0", "4">>
P005 == <<"P", "0", "0", "5">>
P999 == <<"P", "9", "9", "9">>
X001 == <<"X", "0", "0", "1">>

\* What the source tree holds for an id:
\*   absent     - no entry for the id in _meta/registry.yaml
\*   nofile     - entry present, file at entry["path"] does not exist
\*   malformed  - entry and file present, file does not build a Primitive
\*   stable / deprecated / draft - a well-formed primitive of that status
SourceStates == {"absent", "nofile", "malformed", "stable", "deprecated", "draft"}

LoadableStates == {"stable", "deprecated", "draft"}

\* Source tree used when validating plans: one id per source state.
FixtureIds == {P001, P002, P003, P004, P005, P999}

FixtureSource ==
    [id \in FixtureIds |->
        CASE id = P001 -> "stable"
          [] id = P002 -> "deprecated"
          [] id = P003 -> "draft"
          [] id = P004 -> "nofile"
          [] id = P005 -> "malformed"
          [] OTHER     -> "absent"]

\* Ids passed directly to the registry operations: one per source state that
\* decides the outcome of a load, and one with a prefix outside PAMO.
RegIds == {P001, P004, P005, P999, X001}

(***************************************************************************)
(* Core models (core/models.py).                                           *)
(***************************************************************************)
GET == <<"G", "E", "T">>
POST == <<"P", "O", "S", "T">>

\* A runtime value of a plan input: its Python type name and, for a str,
\* its text.
Value(kind, text) == [kind |-> kind, text |-> text]

StrValue(text) == Value("str", text)

IntValue == Value("int", <<>>)

NoneValue == Value("NoneType", <<>>)

\* InputField: enum_values None and [] are both the empty sequence (the code
\* only tests the list for truth before it looks into it); default None is
\* NoneValue.
InputField(name, type, required, enum_values, default) ==
    [name |-> name, type |-> type, required |-> required,
     enum_values |-> enum_values, default |-> default]

\* interface.inputs of the http_call primitive used by the tests: a required
\* string `url` and an optional enum `method`.
HttpInputs ==
    << InputField("url", "string", TRUE, <<>>, NoneValue),
       InputField("method", "enum", FALSE, <<GET, POST>>, NoneValue) >>

A001 == <<"A", "0", "0", "1">>
A002 == <<"A", "0", "0", "2">>

\* interface.inputs with one optional field of every FieldType, and an enum
\* field that declares no enum_values.
TypedInputs ==
    << InputField("s", "string", FALSE, <<>>, NoneValue),
       InputField("n", "number", FALSE, <<>>, NoneValue),
       InputField("b", "boolean", FALSE, <<>>, NoneValue),
       InputField("o", "object", FALSE, <<>>, NoneValue),
       InputField("a", "array", FALSE, <<>>, NoneValue),
       InputField("y", "any", FALSE, <<>>, NoneValue),
       InputField("e", "enum", FALSE, <<GET, POST>>, NoneValue),
       InputField("z", "enum", FALSE, <<>>, NoneValue) >>

\* interface.inputs with required fields, one of them with a default, and
\* an optional field.
RequiredInputs ==
    << InputField("r", "string", TRUE, <<>>, NoneValue),
       InputField("d", "number", TRUE, <<>>, IntValue),
       InputField("q", "string", FALSE, <<>>, StrValue(GET)) >>

\* interface.inputs read from the primitive file of an id.
InterfaceInputs(id) ==
    CASE id = A001 -> TypedInputs
      [] id = A002 -> RequiredInputs
      [] OTHER -> HttpInputs

\* Placeholder carried by results that hold no primitive (an exception was
\* raised instead).
NoPrimitive == [id |-> NoneStr, status |-> "none", inputs |-> <<>>]

\* The Primitive built by model_class(**data) from a well-formed file.
Primitive(id, status) ==
    [id |-> id, status |-> status, inputs |-> InterfaceInputs(id)]

\* IsExpression that recognises no value.
IsExpression_Never(value) == FALSE

\* isinstance(value, str) and value.startswith("{{")
IsExpression(value) ==
    value.kind = "str" /\ StartsWith(value.text, <<"{", "{">>)

\* ValidationViolation(level, code, message, node_id); the message is kept
\* as its template name and its arguments.
Message(text, name, type, got) ==
    [text |-> text, name |-> name, type |-> type, got |-> got]

ValidationViolation(level, code, message, node_id) ==
    [level |-> level, code |-> code, message |-> message, node_id |-> node_id]

PlainMessage(text) == Message(text, "", "", "")

(***************************************************************************)
(* Loader (registry/loader.py).                                            *)
(***************************************************************************)
TypeMapKeys == {"P", "A", "M", "O"}

\* PrimitiveLoader.load_primitive: the exception raised ("" if none) and the
\* primitive returned.  The index file itself is taken to be readable.
load_primitive(src, primitive_id) ==
    IF Len(primitive_id) = 0
    THEN [exc |-> "IndexError", value |-> NoPrimitive]
    ELSE IF primitive_id[1] \notin TypeMapKeys
    THEN [exc |-> "ValueError", value |-> NoPrimitive]
    ELSE IF primitive_id \notin DOMAIN src \/ src[primitive_id] = "absent"
    THEN [exc |-> "FileNotFoundError", value |-> NoPrimitive]
    ELSE IF src[primitive_id] = "nofile"
    THEN [exc |-> "FileNotFoundError", value |-> NoPrimitive]
    ELSE IF src[primitive_id] = "malformed"
    THEN [exc |-> "ValueError", value |-> NoPrimitive]
    ELSE [exc |-> "", value |-> Primitive(primitive_id, src[primitive_id])]

(***************************************************************************)
(* Registry (registry/registry.py).  The cache is a dict: a function whose *)
(* domain is the set of cached ids.  Every operation returns the cache it  *)
(* leaves behind.                                                          *)
(***************************************************************************)
EmptyCache == [id \in {} |-> NoPrimitive]

CachePut(c, primitive_id, primitive) ==
    [id \in DOMAIN c \cup {primitive_id} |->
        IF id = primitive_id THEN primitive ELSE c[id]]

\* GetLoaded, but a failed load leaves a placeholder in the cache.
GetLoaded_CachesFailure(c, primitive_id, r) ==
    [exc |-> r.exc, value |-> r.value,
     cache |-> CachePut(c, primitive_id, r.value),
     loaded |-> TRUE]

\* GetLoaded, but a failed load empties the cache.
GetLoaded_ClearsOnFailure(c, primitive_id, r) ==
    [exc |-> r.exc, value |-> r.value,
     cache |-> IF r.exc = "" THEN CachePut(c, primitive_id, r.value)
               ELSE EmptyCache,
     loaded |-> TRUE]

\* Tail of get after load_primitive returned or raised r: the primitive is
\* stored in the cache and returned, an exception leaves the cache as it is.
GetLoaded(c, primitive_id, r) ==
    [exc |-> r.exc, value |-> r.value,
     cache |-> IF r.exc = "" THEN CachePut(c, primitive_id, r.value) ELSE c,
     loaded |-> TRUE]

\* RegistryGet that never consults the cache.
RegistryGet_NoCacheRead(c, src, primitive_id, use_cache) ==
    GetLoaded(c, primitive_id, load_primitive(src, primitive_id))

\* PrimitiveRegistry.get
RegistryGet(c, src, primitive_id, use_cache) ==
    IF use_cache /\ primitive_id \in DOMAIN c
    THEN [exc |-> "", value |-> c[primitive_id], cache |-> c, loaded |-> FALSE]
    ELSE GetLoaded(c, primitive_id, load_primitive(src, primitive_id))

\* Body of exists around its call g of get: True if get returned, False if
\* it raised FileNotFoundError; any other exception leaves exists.
ExistsResult(g) ==
    [exc |-> IF g.exc = "FileNotFoundError" THEN "" ELSE g.exc,
     value |-> g.exc = "", cache |-> g.cache, loaded |-> g.loaded]

\* PrimitiveRegistry.exists
RegistryExists(c, src, primitive_id) ==
    ExistsResult(RegistryGet(c, src, primitive_id, TRUE))

\* `value not in inp.enum_values`: enum_values is a list of str.
InEnumValues(value, enum_values) ==
    value.kind = "str" /\ value.text \in SeqToSet(enum_values)

\* FieldErrors that takes a declared default for a missing required field.
FieldErrors_DefaultFills(inp, inputs) ==
    IF inp.required /\ inp.name \notin DOMAIN inputs
          /\ inp.default = NoneValue
    THEN << Message("Missing required input", inp.name, "", "") >>
    ELSE IF inp.name \notin DOMAIN inputs
    THEN << >>
    ELSE LET value == inputs[inp.name] IN
         IF inp.type = "string" /\ value.kind # "str"
         THEN << Message("must be", inp.name, "string", value.kind) >>
         ELSE IF inp.type = "number" /\ value.kind \notin {"int", "float", "bool"}
         THEN IF ~IsExpression(value)
              THEN << Message("must be", inp.name, "number", value.kind) >>
              ELSE << >>
         ELSE IF inp.type = "boolean" /\ value.kind # "bool"
         THEN IF ~IsExpression(value)
              THEN << Message("must be", inp.name, "boolean", value.kind) >>
              ELSE << >>
         ELSE IF inp.type = "enum" /\ Len(inp.enum_values) > 0
         THEN IF ~InEnumValues(value, inp.enum_values) /\ ~IsExpression(value)
              THEN << Message("must be one of", inp.name, "enum", "") >>
              ELSE << >>
         ELSE << >>

\* The errors validate_inputs appends for one declared input field.
FieldErrors(inp, inputs) ==
    IF inp.required /\ inp.name \notin DOMAIN inputs
    THEN << Message("Missing required input", inp.name, "", "") >>
    ELSE IF inp.name \notin DOMAIN inputs
    THEN << >>
    ELSE LET value == inputs[inp.name] IN
         IF inp.type = "string" /\ value.kind # "str"
         THEN << Message("must be", inp.name, "string", value.kind) >>
         ELSE IF inp.type = "number" /\ value.kind \notin {"int", "float", "bool"}
         THEN IF ~IsExpression(value)
              THEN << Message("must be", inp.name, "number", value.kind) >>
              ELSE << >>
         ELSE IF inp.type = "boolean" /\ value.kind # "bool"
         THEN IF ~IsExpression(value)
              THEN << Message("must be", inp.name, "boolean", value.kind) >>
              ELSE << >>
         ELSE IF inp.type = "enum" /\ Len(inp.enum_values) > 0
         THEN IF ~InEnumValues(value, inp.enum_values) /\ ~IsExpression(value)
              THEN << Message("must be one of", inp.name, "enum", "") >>
              ELSE << >>
         ELSE << >>

RECURSIVE InputErrors(_, _, _)
\* The loop of validate_inputs over primitive.interface.inputs from index i.
InputErrors(fields, inputs, i) ==
    IF i > Len(fields) THEN << >>
    ELSE FieldErrors(fields[i], inputs) \o InputErrors(fields, inputs, i + 1)

\* (len(errors) == 0, errors)
InputsVerdict(exc, errors, c) ==
    [exc |-> exc, ok |-> exc = "" /\ Len(errors) = 0, errors |-> errors,
     cache |-> c]

\* Body of validate_inputs after its call g of get.
InputsResult(g, inputs) ==
    IF g.exc # "" THEN InputsVerdict(g.exc, << >>, g.cache)
    ELSE InputsVerdict("", InputErrors(g.value.inputs, inputs, 1), g.cache)

\* PrimitiveRegistry.validate_inputs
RegistryValidateInputs(c, src, primitive_id, inputs) ==
    InputsResult(RegistryGet(c, src, primitive_id, TRUE), inputs)

(***************************************************************************)
(* Plans (core/models.py).                                                 *)
(***************************************************************************)
\* PlanNode.fallback = None
NoFallback == [language |-> "None", code |-> <<>>]

CodeBlock(language, code) == [language |-> language, code |-> code]

\* Plan.trigger = None
NoTrigger == [type |-> "None"]

EmptyInputs == [k \in {} |-> NoneValue]

PlanNode(id, primitive_id, inputs, fallback) ==
    [id |-> id, primitive_id |-> primitive_id, inputs |-> inputs,
     fallback |-> fallback]

Edge(from_node, to_node) == [from_node |-> from_node, to_node |-> to_node]

Plan(id, name, allow_fallback, risk_level, trigger, nodes, edges) ==
    [metadata |-> [id |-> id, name |-> name],
     settings |-> [allow_fallback |-> allow_fallback,
                   risk_level |-> risk_level],
     trigger |-> trigger, nodes |-> nodes, edges |-> edges]

\* {node.id for node in plan.nodes}
NodeIdsOf(p) == { p.nodes[i].id : i \in 1..Len(p.nodes) }

(***************************************************************************)
(* Validator (validation/validator.py).                                    *)
(***************************************************************************)
Error(code, text, node_id) ==
    ValidationViolation("error", code, PlainMessage(text), node_id)

Warning(code, text, node_id) ==
    ValidationViolation("warning", code, PlainMessage(text), node_id)

RECURSIVE DuplicateErrors(_, _)
\* The node loop of _validate_syntax from index i: node_ids holds the ids of
\* the nodes before i.
DuplicateErrors(p, i) ==
    IF i > Len(p.nodes) THEN << >>
    ELSE LET node == p.nodes[i]
             node_ids == { p.nodes[j].id : j \in 1..(i - 1) }
         IN (IF node.id \in node_ids
             THEN << Error("DUPLICATE_NODE_ID", "Duplicate node ID", node.id) >>
             ELSE << >>) \o DuplicateErrors(p, i + 1)

\* ValidateSyntax without the duplicate-id loop.
ValidateSyntax_NoDuplicateCheck(p) ==
    (IF Len(p.metadata.id) = 0
     THEN << Error("MISSING_PLAN_ID", "Plan must have an ID", NoneStr) >>
     ELSE << >>)
    \o (IF Len(p.metadata.name) = 0
        THEN << Error("MISSING_PLAN_NAME", "Plan must have a name", NoneStr) >>
        ELSE << >>)
    \o (IF Len(p.nodes) = 0
        THEN << Error("EMPTY_PLAN", "Plan must have at least one node", NoneStr) >>
        ELSE << >>)

\* PlanValidator._validate_syntax (Layer 1)
ValidateSyntax(p) ==
    (IF Len(p.metadata.id) = 0
     THEN << Error("MISSING_PLAN_ID", "Plan must have an ID", NoneStr) >>
     ELSE << >>)
    \o (IF Len(p.metadata.name) = 0
        THEN << Error("MISSING_PLAN_NAME", "Plan must have a name", NoneStr) >>
        ELSE << >>)
    \o (IF Len(p.nodes) = 0
        THEN << Error("EMPTY_PLAN", "Plan must have at least one node", NoneStr) >>
        ELSE << >>)
    \o DuplicateErrors(p, 1)

\* Result of a layer that calls the registry: the exception that left it
\* ("" if none), the violations it returns and the cache it leaves.
LayerResult(exc, violations, c) ==
    [exc |-> exc, violations |-> violations, cache |-> c]

\* A node without primitive_id in _validate_registry.
FallbackStep(node, settings, c) ==
    IF node.fallback = NoFallback
    THEN LayerResult("", << Error("NO_PRIMITIVE_OR_FALLBACK",
             "Node must have primitive_id or fallback", node.id) >>, c)
    ELSE IF ~settings.allow_fallback
    THEN LayerResult("", << Error("FALLBACK_NOT_ALLOWED",
             "Code fallback used but allow_fallback is false", node.id) >>, c)
    ELSE LayerResult("", << >>, c)

\* StatusStep that lets draft primitives through.
StatusStep_DraftAccepted(node, g) ==
    IF g.exc # "" THEN LayerResult(g.exc, << >>, g.cache)
    ELSE LayerResult("",
            (IF g.value.status = "deprecated"
             THEN << Error("PRIMITIVE_DEPRECATED", "Primitive is deprecated",
                           node.id) >>
             ELSE << >>),
            g.cache)

\* The status checks of _validate_registry on the result g of
\* registry.get(node.primitive_id).
StatusStep(node, g) ==
    IF g.exc # "" THEN LayerResult(g.exc, << >>, g.cache)
    ELSE LayerResult("",
            (IF g.value.status = "deprecated"
             THEN << Error("PRIMITIVE_DEPRECATED", "Primitive is deprecated",
                           node.id) >>
             ELSE << >>)
            \o (IF g.value.status = "draft"
                THEN << Error("PRIMITIVE_DRAFT",
                              "Cannot use draft primitive in production",
                              node.id) >>
                ELSE << >>),
            g.cache)

\* A node with primitive_id in _validate_registry, on the result e of
\* registry.exists(node.primitive_id).
ExistsStep(node, src, e) ==
    IF e.exc # "" THEN LayerResult(e.exc, << >>, e.cache)
    ELSE IF ~e.value
    THEN LayerResult("", << Error("PRIMITIVE_NOT_FOUND", "Primitive not found",
                                  node.id) >>, e.cache)
    ELSE StatusStep(node, RegistryGet(e.cache, src, node.primitive_id, TRUE))

\* Body of the node loop of _validate_registry for one node.
RegistryNodeStep(node, settings, c, src) ==
    IF node.primitive_id = NoneStr
    THEN FallbackStep(node, settings, c)
    ELSE ExistsStep(node, src, RegistryExists(c, src, node.primitive_id))

\* violations.append over a loop: the entries of one iteration followed by
\* those of the iterations after it.
Joined(violations, rest) ==
    LayerResult(rest.exc, violations \o rest.violations, rest.cache)

RECURSIVE ValidateRegistryFrom(_, _, _, _)
RECURSIVE RegistryLoop(_, _, _, _)
\* The node loop of _validate_registry after node i gave step: an exception
\* leaves the loop, otherwise the loop goes on with the cache step left.
RegistryLoop(p, i, src, step) ==
    IF step.exc # "" THEN step
    ELSE Joined(step.violations,
                ValidateRegistryFrom(p, i + 1, step.cache, src))

\* PlanValidator._validate_registry (Layer 2), nodes i.. of the plan.
ValidateRegistryFrom(p, i, c, src) ==
    IF i > Len(p.nodes) THEN LayerResult("", << >>, c)
    ELSE RegistryLoop(p, i, src,
                      RegistryNodeStep(p.nodes[i], p.settings, c, src))

RECURSIVE InterfaceViolations(_, _, _)
\* One INTERFACE_VIOLATION per error returned by validate_inputs.
InterfaceViolations(errors, node_id, i) ==
    IF i > Len(errors) THEN << >>
    ELSE << ValidationViolation("error", "INTERFACE_VIOLATION", errors[i],
                                node_id) >>
         \o InterfaceViolations(errors, node_id, i + 1)

\* The violations _validate_interface appends for the result r of
\* registry.validate_inputs.
InputsStep(node, r) ==
    IF r.exc # "" THEN LayerResult(r.exc, << >>, r.cache)
    ELSE LayerResult("", InterfaceViolations(r.errors, node.id, 1), r.cache)

\* InterfaceNodeStep that does not ask registry.exists before validating
\* the inputs and reports a failed lookup as an interface violation.
InterfaceNodeStep_ReportsMissing(node, c, src) ==
    IF node.primitive_id = NoneStr THEN LayerResult("", << >>, c)
    ELSE LET r == RegistryValidateInputs(c, src, node.primitive_id,
                                         node.inputs) IN
         IF r.exc = "FileNotFoundError"
         THEN LayerResult("",
                 << ValidationViolation("error", "INTERFACE_VIOLATION",
                        Message("Primitive not found", "", "", ""),
                        node.id) >>, r.cache)
         ELSE InputsStep(node, r)

\* A node with primitive_id in _validate_interface, on the result e of
\* registry.exists(node.primitive_id).
InterfaceExistsStep(node, src, e) ==
    IF e.exc # "" THEN LayerResult(e.exc, << >>, e.cache)
    ELSE IF ~e.value THEN LayerResult("", << >>, e.cache)
    ELSE InputsStep(node,
            RegistryValidateInputs(e.cache, src, node.primitive_id,
                                   node.inputs))

\* Body of the node loop of _validate_interface for one node.
InterfaceNodeStep(node, c, src) ==
    IF node.primitive_id = NoneStr THEN LayerResult("", << >>, c)
    ELSE InterfaceExistsStep(node, src,
                             RegistryExists(c, src, node.primitive_id))

RECURSIVE ValidateInterfaceFrom(_, _, _, _)
RECURSIVE InterfaceLoop(_, _, _, _)
\* The node loop of _validate_interface after node i gave step.
InterfaceLoop(p, i, src, step) ==
    IF step.exc # "" THEN step
    ELSE Joined(step.violations,
                ValidateInterfaceFrom(p, i + 1, step.cache, src))

\* PlanValidator._validate_interface (Layer 3), nodes i.. of the plan.
ValidateInterfaceFrom(p, i, c, src) ==
    IF i > Len(p.nodes) THEN LayerResult("", << >>, c)
    ELSE InterfaceLoop(p, i, src, InterfaceNodeStep(p.nodes[i], c, src))

RECURSIVE GraphKeysFrom(_, _)
\* Keys of `graph` in _has_cycle, in dict insertion order: the node ids in
\* plan order, a repeated id keeping its first position.
GraphKeysFrom(p, i) ==
    IF i > Len(p.nodes) THEN << >>
    ELSE (IF p.nodes[i].id \in { p.nodes[j].id : j \in 1..(i - 1) }
          THEN << >>
          ELSE << p.nodes[i].id >>) \o GraphKeysFrom(p, i + 1)

RECURSIVE NeighborsFrom(_, _, _)
\* graph[node]: the to_node of every edge leaving node, in edge order.
NeighborsFrom(p, node, i) ==
    IF i > Len(p.edges) THEN << >>
    ELSE (IF p.edges[i].from_node = node
          THEN << p.edges[i].to_node >>
          ELSE << >>) \o NeighborsFrom(p, node, i + 1)

\* graph.get(node, []): edges are recorded only for declared node ids.
GraphGet(p, node) ==
    IF node \in NodeIdsOf(p) THEN NeighborsFrom(p, node, 1) ELSE << >>

DfsResult(found, visited, rec_stack) ==
    [found |-> found, visited |-> visited, rec_stack |-> rec_stack]

RECURSIVE Dfs(_, _, _, _)
RECURSIVE DfsNeighbors(_, _, _, _, _, _)
RECURSIVE DfsAfterChild(_, _, _, _, _)
\* dfs(node) of _has_cycle after the recursive call on its k-th neighbour
\* returned r: True is passed up, otherwise the loop goes on.
DfsAfterChild(p, node, nbrs, k, r) ==
    IF r.found THEN r
    ELSE DfsNeighbors(p, node, nbrs, k + 1, r.visited, r.rec_stack)

\* The neighbour loop of dfs(node) from the k-th neighbour on; leaving the
\* loop removes node from rec_stack and returns False.
DfsNeighbors(p, node, nbrs, k, visited, rec_stack) ==
    IF k > Len(nbrs)
    THEN DfsResult(FALSE, visited, rec_stack \ {node})
    ELSE IF nbrs[k] \notin visited
    THEN DfsAfterChild(p, node, nbrs, k, Dfs(p, nbrs[k], visited, rec_stack))
    ELSE IF nbrs[k] \in rec_stack
    THEN DfsResult(TRUE, visited, rec_stack)
    ELSE DfsNeighbors(p, node, nbrs, k + 1, visited, rec_stack)

\* dfs(node) of _has_cycle
Dfs(p, node, visited, rec_stack) ==
    DfsNeighbors(p, node, GraphGet(p, node), 1,
                 visited \cup {node}, rec_stack \cup {node})

RECURSIVE HasCycleFrom(_, _, _, _, _)
RECURSIVE HasCycleAfterDfs(_, _, _, _)
\* The outer loop of _has_cycle after dfs(keys[i]) returned r.
HasCycleAfterDfs(p, keys, i, r) ==
    IF r.found THEN TRUE
    ELSE HasCycleFrom(p, keys, i + 1, r.visited, r.rec_stack)

\* The outer loop of _has_cycle over the keys of graph, from index i.
HasCycleFrom(p, keys, i, visited, rec_stack) ==
    IF i > Len(keys) THEN FALSE
    ELSE IF keys[i] \in visited
    THEN HasCycleFrom(p, keys, i + 1, visited, rec_stack)
    ELSE HasCycleAfterDfs(p, keys, i, Dfs(p, keys[i], visited, rec_stack))

\* HasCycle that starts the search at the first node only.
HasCycle_FirstNodeOnly(p) ==
    LET keys == GraphKeysFrom(p, 1) IN
    HasCycleFrom(p, SubSeq(keys, 1, IF Len(keys) > 0 THEN 1 ELSE 0), 1, {}, {})

\* PlanValidator._has_cycle
HasCycle(p) == HasCycleFrom(p, GraphKeysFrom(p, 1), 1, {}, {})

RECURSIVE EdgeErrors(_, _)
\* The edge loop of _validate_dependencies from index i.
EdgeErrors(p, i) ==
    IF i > Len(p.edges) THEN << >>
    ELSE (IF p.edges[i].from_node \notin NodeIdsOf(p)
          THEN << Error("INVALID_EDGE_SOURCE",
                        "Edge references non-existent node", NoneStr) >>
          ELSE << >>)
         \o (IF p.edges[i].to_node \notin NodeIdsOf(p)
             THEN << Error("INVALID_EDGE_TARGET",
                           "Edge references non-existent node", NoneStr) >>
             ELSE << >>)
         \o EdgeErrors(p, i + 1)

\* ValidateDependencies, but the cycle is reported before the edges.
ValidateDependencies_CycleFirst(p) ==
    (IF HasCycle(p)
     THEN << Error("CIRCULAR_DEPENDENCY",
                   "Plan contains circular dependencies", NoneStr) >>
     ELSE << >>)
    \o EdgeErrors(p, 1)

\* PlanValidator._validate_dependencies (Layer 4)
ValidateDependencies(p) ==
    EdgeErrors(p, 1)
    \o (IF HasCycle(p)
        THEN << Error("CIRCULAR_DEPENDENCY",
                      "Plan contains circular dependencies", NoneStr) >>
        ELSE << >>)

EvalCall == <<"e", "v", "a", "l", "(">>
ExecCall == <<"e", "x", "e", "c", "(">>

RECURSIVE UnsafeCodeWarnings_EvalOnly(_, _)
\* UnsafeCodeWarnings, but only "eval(" is looked for.
UnsafeCodeWarnings_EvalOnly(p, i) ==
    IF i > Len(p.nodes) THEN << >>
    ELSE LET node == p.nodes[i] IN
         (IF /\ node.fallback # NoFallback
             /\ Len(node.fallback.code) > 0
             /\ Contains(node.fallback.code, EvalCall)
          THEN << Warning("UNSAFE_CODE",
                    "Fallback code contains potentially unsafe constructs",
                    node.id) >>
          ELSE << >>) \o UnsafeCodeWarnings_EvalOnly(p, i + 1)

RECURSIVE UnsafeCodeWarnings(_, _)
\* The node loop of _validate_policy from index i.
UnsafeCodeWarnings(p, i) ==
    IF i > Len(p.nodes) THEN << >>
    ELSE LET node == p.nodes[i] IN
         (IF /\ node.fallback # NoFallback
             /\ Len(node.fallback.code) > 0
             /\ (Contains(node.fallback.code, EvalCall)
                 \/ Contains(node.fallback.code, ExecCall))
          THEN << Warning("UNSAFE_CODE",
                    "Fallback code contains potentially unsafe constructs",
                    node.id) >>
          ELSE << >>) \o UnsafeCodeWarnings(p, i + 1)

\* PlanValidator._validate_policy (Layer 5): returns warnings.  The layer
\* holds no PolicyEngine and calls none.
ValidatePolicy(p) ==
    LET fallback_count ==
            Cardinality({ i \in 1..Len(p.nodes) : p.nodes[i].fallback # NoFallback })
    IN (IF fallback_count > 0
        THEN << Warning("FALLBACK_USED", "Plan uses code fallback(s)", NoneStr) >>
        ELSE << >>)
       \o UnsafeCodeWarnings(p, 1)
       \o (IF p.settings.risk_level = "high"
           THEN << Warning("HIGH_RISK_PLAN", "Plan is marked as high-risk",
                           NoneStr) >>
           ELSE << >>)

\* ValidationResult whose valid flag also requires an empty warnings list.
ValidationResult_WarningsCount(violations, warnings) ==
    [status |-> "returned", exc |-> "",
     valid |-> Len(violations) = 0 /\ Len(warnings) = 0,
     violations |-> violations, warnings |-> warnings]

\* ValidationResult(valid, violations, warnings) as built by validate.
ValidationResult(violations, warnings) ==
    [status |-> "returned", exc |-> "",
     valid |-> Len(violations) = 0,
     violations |-> violations, warnings |-> warnings]

\* validate left by an exception instead of returning a report.
Raised(exc) ==
    [status |-> "raised", exc |-> exc, valid |-> FALSE,
     violations |-> << >>, warnings |-> << >>]

\* No validate call made yet.
NoReport ==
    [status |-> "none", exc |-> "", valid |-> FALSE,
     violations |-> << >>, warnings |-> << >>]

\* What a validate call leaves: its report (or exception) and the cache.
Outcome(r, c) == [report |-> r, cache |-> c]

\* validate after Layers 2 and 3 returned l2 and l3.
AfterInterface(p, l2, l3) ==
    IF l3.exc # "" THEN Outcome(Raised(l3.exc), l3.cache)
    ELSE Outcome(ValidationResult(
                    ValidateSyntax(p) \o l2.violations \o l3.violations
                        \o ValidateDependencies(p),
                    ValidatePolicy(p)),
                 l3.cache)

\* validate after Layer 2 returned l2.
AfterRegistry(p, src, l2) ==
    IF l2.exc # "" THEN Outcome(Raised(l2.exc), l2.cache)
    ELSE AfterInterface(p, l2, ValidateInterfaceFrom(p, 1, l2.cache, src))

\* PlanValidator.validate: the report (or the exception) and the registry
\* cache after the call.
Validate(p, c, src) ==
    AfterRegistry(p, src, ValidateRegistryFrom(p, 1, c, src))

(***************************************************************************)
(* Policy engine (validation/policy.py).                                   *)
(***************************************************************************)
MaxPolicyNodes == 50
FallbackLimit == 3

TestPrefix == <<"t", "e", "s", "t", "-">>

PolicyRule(name, severity) == [name |-> name, severity |-> severity]

\* PolicyEngine._register_default_rules
DefaultRules ==
    << PolicyRule("max_nodes", "warning"),
       PolicyRule("fallback_limit", "error"),
       PolicyRule("no_high_risk_fallback", "error"),
       PolicyRule("trigger_required", "warning") >>

FallbackNodes(p) == { i \in 1..Len(p.nodes) : p.nodes[i].fallback # NoFallback }

\* rule.check(plan) of the built-in rules
RuleCheck(rule, p) ==
    CASE rule.name = "max_nodes" -> Len(p.nodes) <= MaxPolicyNodes
      [] rule.name = "fallback_limit" ->
            Cardinality(FallbackNodes(p)) <= FallbackLimit
      [] rule.name = "no_high_risk_fallback" ->
            ~(p.settings.risk_level = "high" /\ FallbackNodes(p) # {})
      [] rule.name = "trigger_required" ->
            p.trigger # NoTrigger \/ StartsWith(p.metadata.id, TestPrefix)
      [] OTHER -> TRUE

\* f"POLICY_{rule.name.upper()}"
PolicyCode(name) ==
    CASE name = "max_nodes" -> "POLICY_MAX_NODES"
      [] name = "fallback_limit" -> "POLICY_FALLBACK_LIMIT"
      [] name = "no_high_risk_fallback" -> "POLICY_NO_HIGH_RISK_FALLBACK"
      [] name = "trigger_required" -> "POLICY_TRIGGER_REQUIRED"
      [] name = "audit" -> "POLICY_AUDIT"
      [] name = "Audit" -> "POLICY_AUDIT"
      [] OTHER -> "POLICY_OTHER"

\* A rule registered by a caller through add_rule; its predicate returns
\* True or False whatever the plan is, or raises an Exception.
CustomRule(name, severity, check) ==
    [name |-> name, severity |-> severity, check |-> check]

\* What rule.check(plan) does: "true", "false" or "raises".
RuleOutcome(rule, p) ==
    IF "check" \in DOMAIN rule THEN rule.check
    ELSE IF RuleCheck(rule, p) THEN "true" ELSE "false"

\* ValidationViolation.level: Field(pattern="^(error|warning|info)$")
Levels == {"error", "warning", "info"}

\* One turn of the loop of evaluate.  The violation of a failed rule is
\* built inside the try block, so a severity that the model of the
\* violation rejects ends in the except branch like a raising predicate.
RuleViolations(rule, p) ==
    IF RuleOutcome(rule, p) = "true" THEN << >>
    ELSE IF RuleOutcome(rule, p) = "false" /\ rule.severity \in Levels
    THEN << ValidationViolation(rule.severity, PolicyCode(rule.name),
                                PlainMessage(rule.name), NoneStr) >>
    ELSE << ValidationViolation("error", "POLICY_EVAL_ERROR",
                Message("Failed to evaluate rule", rule.name, "", ""),
                NoneStr) >>

RECURSIVE PolicyEvaluateFrom(_, _, _)
\* PolicyEngine.evaluate, rules i.. of the engine.
PolicyEvaluateFrom(rs, p, i) ==
    IF i > Len(rs) THEN << >>
    ELSE RuleViolations(rs[i], p) \o PolicyEvaluateFrom(rs, p, i + 1)

PolicyEvaluate(rs, p) == PolicyEvaluateFrom(rs, p, 1)

\* PolicyEngine.add_rule
add_rule(rs, rule) == Append(rs, rule)

\* remove_rule that drops only the first rule of the name.
remove_rule_FirstOnly(rs, name) ==
    LET hits == { i \in 1..Len(rs) : rs[i].name = name }
        first == IF hits = {} THEN 0
                 ELSE CHOOSE i \in hits : \A j \in hits : i <= j
        kept == [i \in 1..(Len(rs) - (IF first = 0 THEN 0 ELSE 1)) |->
                    IF first = 0 \/ i < first THEN rs[i] ELSE rs[i + 1]] IN
    [rules |-> kept, returned |-> Len(kept) < Len(rs)]

\* PolicyEngine.remove_rule: the rules left and the value returned.
remove_rule(rs, name) ==
    [rules |-> SelectSeq(rs, LAMBDA r : r.name # name),
     returned |-> Len(SelectSeq(rs, LAMBDA r : r.name # name)) < Len(rs)]

(***************************************************************************)
(* Compiler (compiler/n8n.py): text helpers.  Text that comes from a plan  *)
(* (node ids, input values) is kept character by character; the literal   *)
(* text of the compiler's own templates is kept in whole pieces, one       *)
(* sequence element per piece.                                             *)
(***************************************************************************)
Lowers ==
    << "a", "b", "c", "d", "e", "f", "g", "h", "i", "j", "k", "l", "m",
       "n", "o", "p", "q", "r", "s", "t", "u", "v", "w", "x", "y", "z" >>

Uppers ==
    << "A", "B", "C", "D", "E", "F", "G", "H", "I", "J", "K", "L", "M",
       "N", "O", "P", "Q", "R", "S", "T", "U", "V", "W", "X", "Y", "Z" >>

\* str.isupper / str.islower of one character
IsCased(ch) == ch \in SeqToSet(Lowers) \cup SeqToSet(Uppers)

\* str.upper of one character
UpperChar(ch) ==
    IF ch \in SeqToSet(Lowers)
    THEN Uppers[CHOOSE i \in 1..Len(Lowers) : Lowers[i] = ch]
    ELSE ch

\* str.lower of one character
LowerChar(ch) ==
    IF ch \in SeqToSet(Uppers)
    THEN Lowers[CHOOSE i \in 1..Len(Uppers) : Uppers[i] = ch]
    ELSE ch

\* str.upper
Upper(s) == [i \in 1..Len(s) |-> UpperChar(s[i])]

\* name.replace("_", " ")
ReplaceUnderscores(name) ==
    [i \in 1..Len(name) |-> IF name[i] = "_" THEN " " ELSE name[i]]

\* str.title: a cased character is upper-cased when the character before it
\* is not cased (or there is none) and lower-cased otherwise.
Title(s) ==
    [i \in 1..Len(s) |->
        IF i > 1 /\ IsCased(s[i - 1]) THEN LowerChar(s[i]) ELSE UpperChar(s[i])]

\* N8NCompiler._sanitize_name
SanitizeName(name) == Title(ReplaceUnderscores(name))

\* s[i:] starts with sub (i counts from 1)
HasAt(s, i, sub) ==
    /\ i + Len(sub) - 1 <= Len(s)
    /\ \A k \in 1..Len(sub) : s[i + k - 1] = sub[k]

RECURSIVE SkipSpaces(_, _)
\* First index at or after i that does not hold whitespace.
SkipSpaces(s, i) ==
    IF i <= Len(s) /\ s[i] = " " THEN SkipSpaces(s, i + 1) ELSE i

RECURSIVE SkipToBrace(_, _)
\* First index at or after i that holds "}" (Len(s) + 1 if none).
SkipToBrace(s, i) ==
    IF i <= Len(s) /\ s[i] # "}" THEN SkipToBrace(s, i + 1) ELSE i

\* str.strip
Strip(s) ==
    LET kept == { i \in 1..Len(s) : s[i] # " " } IN
    IF kept = {} THEN << >>
    ELSE SubSeq(s, CHOOSE i \in kept : \A j \in kept : i <= j,
                   CHOOSE i \in kept : \A j \in kept : i >= j)

OpenBraces == <<"{", "{">>
CloseBraces == <<"}", "}">>
RefWord == <<"r", "e", "f", ":">>

\* "{{ ref:"
RefMarker == <<"{", "{", " ", "r", "e", "f", ":">>

\* Where the group ([^}]+) of the pattern starts when the pattern is tried
\* at i: after "{{", whitespace and "ref:" (0 if they are not there).
RefGroupStart(s, i) ==
    IF HasAt(s, i, OpenBraces) /\ HasAt(s, SkipSpaces(s, i + 2), RefWord)
    THEN SkipSpaces(s, i + 2) + 4
    ELSE 0

\* re.search(r"\{\{\s*ref:\s*([^}]+)\s*\}\}", s) tried at i only: the
\* pattern matches when "{{", whitespace, "ref:" are followed by at least
\* one character other than "}" and the run of such characters ends in
\* "}}".  g is RefGroupStart(s, i).
RefMatchesAt(s, i, g) ==
    /\ g > 0
    /\ SkipToBrace(s, g) > g
    /\ HasAt(s, SkipToBrace(s, g), CloseBraces)

\* Start indices of the matches of the pattern in s.
RefMatchStarts(s) ==
    { i \in 1..Len(s) : RefMatchesAt(s, i, RefGroupStart(s, i)) }

\* match.group(0) of the match that starts at i.
RefMatchText(s, i) ==
    SubSeq(s, i, SkipToBrace(s, RefGroupStart(s, i)) + 1)

\* match.group(1).strip() of the match that starts at i.
RefOf(s, i) ==
    Strip(SubSeq(s, RefGroupStart(s, i),
                 SkipToBrace(s, RefGroupStart(s, i)) - 1))

\* Index of the first "." of ref (Len(ref) + 1 if none).
FirstDot(ref) ==
    IF \E i \in 1..Len(ref) : ref[i] = "."
    THEN CHOOSE i \in 1..Len(ref) :
            ref[i] = "." /\ \A j \in 1..(i - 1) : ref[j] # "."
    ELSE Len(ref) + 1

Body == <<"b", "o", "d", "y">>

\* parts[0] of ref.split(".")
RefNodeId(ref) == SubSeq(ref, 1, FirstDot(ref) - 1)

\* ".".join(parts[1:]) if len(parts) > 1 else "body"
RefOutputField(ref) ==
    IF FirstDot(ref) <= Len(ref)
    THEN SubSeq(ref, FirstDot(ref) + 1, Len(ref))
    ELSE Body

ExprOpen == << "$('{{ $node[\"" >>
ExprMid == << "\"].json." >>
ExprClose == << " }}')" >>

\* f"$('{{{{ $node[\"{node_id}\"].json.{output_field} }}}}')"
N8nExpr(ref) ==
    ExprOpen \o RefNodeId(ref) \o ExprMid \o RefOutputField(ref) \o ExprClose

RECURSIVE ReplaceFrom(_, _, _, _)
\* str.replace(old, new) from index i on: every occurrence of old, left to
\* right, without overlap.
ReplaceFrom(s, old, new, i) ==
    IF i > Len(s) THEN << >>
    ELSE IF HasAt(s, i, old)
    THEN new \o ReplaceFrom(s, old, new, i + Len(old))
    ELSE << s[i] >> \o ReplaceFrom(s, old, new, i + 1)

\* The rewriting of _resolve_reference for the match that starts at i.
RewriteMatch(s, i) ==
    ReplaceFrom(s, RefMatchText(s, i), N8nExpr(RefOf(s, i)), 1)

\* The first match of re.search.
FirstOf(starts) == CHOOSE i \in starts : \A j \in starts : i <= j

\* N8NCompiler._resolve_reference on a value
ResolveReference(value) ==
    IF value.kind # "str" THEN value
    ELSE IF Contains(value.text, RefMarker) /\ RefMatchStarts(value.text) # {}
    THEN StrValue(RewriteMatch(value.text, FirstOf(RefMatchStarts(value.text))))
    ELSE value

(***************************************************************************)
(* Compiler (compiler/n8n.py): values, tables and node handlers.           *)
(***************************************************************************)
\* A literal str of the compiler's own text.
Lit(piece) == StrValue(<< piece >>)

\* A dict value whose items are known: key -> value.
Dict(items) == [kind |-> "dict", text |-> << >>, items |-> items]

\* A list value whose items are known.
List(items) == [kind |-> "list", text |-> << >>, items |-> items]

EmptyItems == [k \in {} |-> NoneValue]

\* d[key] = value
Put(d, key, value) ==
    [k \in DOMAIN d \cup {key} |-> IF k = key THEN value ELSE d[k]]

\* inputs.get(key, default)
GetOr(inputs, key, default) ==
    IF key \in DOMAIN inputs THEN inputs[key] ELSE default

\* The input names a plan may use, in the order in which a plan writes them
\* (dict order is insertion order).
InputOrder ==
    << "url", "method", "headers", "headerParameters", "opt", "opt.x",
       "sub.y", "sub", "operation", "source", "template", "condition",
       "initial", "batch_size", "prompt", "model", "system_prompt",
       "temperature", "max_tokens", "level", "message", "data" >>

\* list(inputs.keys())
KeysOf(inputs) == SelectSeq(InputOrder, LAMBDA k : k \in DOMAIN inputs)

\* n8n_param.split(".")
NameParts(name) ==
    CASE name = "opt.x" -> << "opt", "x" >>
      [] name = "sub.y" -> << "sub", "y" >>
      [] OTHER -> << name >>

\* str(value) as an f-string renders it
TextOf(value) ==
    IF value.kind = "str" THEN value.text ELSE << "<", value.kind, ">" >>

RECURSIVE JsonItems(_, _, _)
\* The items of json.dumps(dict) from the i-th key on.
JsonItems(d, keys, i) ==
    IF i > Len(keys) THEN << >>
    ELSE << "\"", keys[i], "\": " >>
         \o (IF d[keys[i]].kind = "str"
             THEN << "\"" >> \o d[keys[i]].text \o << "\"" >>
             ELSE << "<", d[keys[i]].kind, ">" >>)
         \o (IF i < Len(keys) THEN << ", " >> ELSE << >>)
         \o JsonItems(d, keys, i + 1)

\* json.dumps(node.inputs): strings keep their text, other values their type.
JsonDumps(d) == << "{" >> \o JsonItems(d, KeysOf(d), 1) \o << "}" >>

\* N8NNode: id is the uuid drawn in __init__.
N8NNode(id, name, node_type, position, parameters, type_version) ==
    [id |-> id, name |-> name, type |-> node_type, position |-> position,
     parameters |-> parameters, typeVersion |-> type_version]

\* uuid.uuid4(): the k-th id drawn in a run; seed stands for the randomness
\* of the run.
Uuid(seed, k) == [seed |-> seed, k |-> k]

NoNode == N8NNode(Uuid(0, 0), << >>, "", << 0, 0 >>, EmptyItems, 0)

\* What a handler leaves: the exception raised ("" if none) with its
\* message, and the node.
NodeFailed(exc, message) == [exc |-> exc, message |-> message, node |-> NoNode]

NodeResult(exc, node) == [exc |-> exc, message |-> << >>, node |-> node]

P006 == <<"P", "0", "0", "6">>
P007 == <<"P", "0", "0", "7">>
P008 == <<"P", "0", "0", "8">>
P009 == <<"P", "0", "0", "9">>
P010 == <<"P", "0", "1", "0">>

\* The keys of PARTICLE_TO_N8N.
ParticleIds == {P001, P002, P003, P004, P005, P006, P007, P008, P009, P010}

\* An entry of PARTICLE_TO_N8N: type, version, custom_handler ("" if none)
\* and param_map.
N8nDef(type, version, custom_handler, param_map) ==
    [type |-> type, version |-> version, custom_handler |-> custom_handler,
     param_map |-> param_map]

NoParamMap == [k \in {} |-> ""]

\* PARTICLE_TO_N8N[primitive_id]
ParticleToN8n(primitive_id) ==
    CASE primitive_id = P001 ->
            N8nDef("n8n-nodes-base.httpRequest", 4, "",
                   [k \in {"method", "url", "headers", "body", "query_params",
                           "timeout", "auth"} |->
                       CASE k = "headers" -> "headerParameters"
                         [] k = "query_params" -> "queryParameters"
                         [] k = "auth" -> "authentication"
                         [] OTHER -> k])
      [] primitive_id = P002 ->
            N8nDef("n8n-nodes-base.postgres", 2, "",
                   [k \in {"query", "operation"} |-> k])
      [] primitive_id = P003 ->
            N8nDef("n8n-nodes-base.readWriteFile", 1, "",
                   [k \in {"operation", "path", "content"} |->
                       CASE k = "path" -> "filePath"
                         [] k = "content" -> "fileContent"
                         [] OTHER -> k])
      [] primitive_id = P004 ->
            N8nDef("n8n-nodes-base.code", 2, "_compile_transform", NoParamMap)
      [] primitive_id = P005 ->
            N8nDef("n8n-nodes-base.if", 2, "_compile_branch", NoParamMap)
      [] primitive_id = P006 ->
            N8nDef("n8n-nodes-base.splitInBatches", 3, "_compile_loop",
                   NoParamMap)
      [] primitive_id = P007 ->
            N8nDef("@n8n/n8n-nodes-langchain.openAi", 1, "_compile_llm_call",
                   NoParamMap)
      [] primitive_id = P008 ->
            N8nDef("n8n-nodes-base.redis", 1, "",
                   [k \in {"operation", "key", "value", "ttl"} |->
                       IF k = "ttl" THEN "expire" ELSE k])
      [] primitive_id = P009 ->
            N8nDef("n8n-nodes-base.rabbitmq", 1, "",
                   [k \in {"operation", "queue", "message"} |->
                       IF k = "message" THEN "content" ELSE k])
      [] OTHER ->
            N8nDef("n8n-nodes-base.code", 2, "_compile_log", NoParamMap)

\* Plan.trigger: type and config.
Trigger(type, config) == [type |-> type, config |-> config]

\* TRIGGER_TO_N8N.get(trigger_type, TRIGGER_TO_N8N["manual"])
TriggerToN8n(trigger_type) ==
    CASE trigger_type = "webhook" ->
            [type |-> "n8n-nodes-base.webhook", version |-> 2,
             parameters |-> [k \in {"httpMethod", "path", "responseMode"} |->
                 CASE k = "httpMethod" -> Lit("POST")
                   [] k = "path" -> Lit("webhook")
                   [] OTHER -> Lit("responseNode")]]
      [] trigger_type = "schedule" ->
            [type |-> "n8n-nodes-base.scheduleTrigger", version |-> 1,
             parameters |-> [k \in {"rule"} |->
                 Dict([j \in {"interval"} |->
                     List(<< Dict([f \in {"field", "hoursInterval"} |->
                         IF f = "field" THEN Lit("hours")
                         ELSE Value("int", << "1" >>)]) >>)])]]
      [] trigger_type = "event" ->
            [type |-> "n8n-nodes-base.webhook", version |-> 2,
             parameters |-> [k \in {"httpMethod", "path"} |->
                 IF k = "httpMethod" THEN Lit("POST") ELSE Lit("event")]]
      [] OTHER ->
            [type |-> "n8n-nodes-base.manualTrigger", version |-> 1,
             parameters |-> EmptyItems]

TriggerName == <<"T", "r", "i", "g", "g", "e", "r">>

\* The parameters of the trigger node: the defaults of the table with the
\* cron or the path of the config merged in.
TriggerParameters(trigger_type, config, defaults) ==
    IF trigger_type = "schedule" /\ "cron" \in DOMAIN config
    THEN Put(defaults, "rule", Dict([k \in {"cron"} |-> config["cron"]]))
    ELSE IF trigger_type = "webhook" /\ "path" \in DOMAIN config
    THEN Put(defaults, "path", config["path"])
    ELSE defaults

\* The N8NNode built at the end of _compile_trigger.
TriggerNode(id, trigger_type, config, trigger_def) ==
    N8NNode(id, TriggerName, trigger_def.type, << 0, 0 >>,
            TriggerParameters(trigger_type, config, trigger_def.parameters),
            trigger_def.version)

\* N8NCompiler._compile_trigger
CompileTrigger(p, id) ==
    IF p.trigger = NoTrigger
    THEN TriggerNode(id, "manual", EmptyItems, TriggerToN8n("manual"))
    ELSE TriggerNode(id, p.trigger.type, p.trigger.config,
                     TriggerToN8n(p.trigger.type))

\* {"mode": "runOnceForAllItems", "jsCode": code}
CodeParameters(code) ==
    [k \in {"mode", "jsCode"} |->
        IF k = "mode" THEN Lit("runOnceForAllItems") ELSE StrValue(code)]

\* A code node named after the plan node.
CodeNode(id, node, code) ==
    N8NNode(id, SanitizeName(node.id), "n8n-nodes-base.code", << 0, 0 >>,
            CodeParameters(code), 2)

RECURSIVE RStrip(_)
\* str.rstrip
RStrip(s) ==
    IF Len(s) > 0 /\ s[Len(s)] = " " THEN RStrip(SubSeq(s, 1, Len(s) - 1))
    ELSE s

\* The grave accent, which a TLA+ string cannot hold.
Backtick == "GRAVE"

\* N8NCompiler._wrap_fallback_code: the header comments name the
\* description and the schemas of the block, which the plans here leave
\* empty.
WrapFallbackCode(fallback) ==
    IF fallback.language = "javascript"
    THEN RStrip(<< "// Maicrosoft Fallback Code: \n// Inputs: {}\n// Outputs: {}\n\n" >>
                \o fallback.code)
    ELSE IF fallback.language = "python"
    THEN << "// Maicrosoft Fallback: Python code (requires external execution)\n// Description: \n// WARNING: Python fallback not directly executable in N8N\n\nconst pythonCode = ", Backtick >>
         \o fallback.code
         \o << Backtick, ";\n// TODO: Send to Python execution service\nreturn $input.all();" >>
    ELSE fallback.code

\* N8NCompiler._compile_fallback
CompileFallback(node, id) ==
    NodeResult("", CodeNode(id, node, WrapFallbackCode(node.fallback)))

MapWord == <<"m", "a", "p">>
FilterWord == <<"f", "i", "l", "t", "e", "r">>
ReduceWord == <<"r", "e", "d", "u", "c", "e">>
FlattenWord == <<"f", "l", "a", "t", "t", "e", "n">>

\* `value or default` for the strings of the templates
OrElse(value, default) ==
    IF (value.kind = "str" /\ Len(value.text) = 0) \/ value.kind = "NoneType"
    THEN default
    ELSE value

\* The jsCode of _compile_transform for the operation, before code.strip().
TransformCode(operation, source_items, template, condition, initial) ==
    IF operation = StrValue(MapWord)
    THEN << "// Transform: Map operation\nconst items = " >> \o TextOf(source_items)
         \o << ";\nconst results = items.map(item => {\n  return " >>
         \o TextOf(OrElse(template, Lit("item")))
         \o << ";\n});\nreturn results.map(json => ({json}));" >>
    ELSE IF operation = StrValue(FilterWord)
    THEN << "// Transform: Filter operation\nconst items = " >>
         \o TextOf(source_items)
         \o << ";\nconst results = items.filter(item => {\n  return " >>
         \o TextOf(condition)
         \o << ";\n});\nreturn results.map(json => ({json}));" >>
    ELSE IF operation = StrValue(ReduceWord)
    THEN << "// Transform: Reduce operation\nconst items = " >>
         \o TextOf(source_items)
         \o << ";\nconst result = items.reduce((acc, item) => {\n  " >>
         \o TextOf(OrElse(template, Lit("return acc;")))
         \o << "\n}, " >> \o TextOf(initial)
         \o << ");\nreturn [{json: result}];" >>
    ELSE IF operation = StrValue(FlattenWord)
    THEN << "// Transform: Flatten operation\nconst items = " >>
         \o TextOf(source_items)
         \o << ";\nconst results = items.flat();\nreturn results.map(json => ({json}));" >>
    ELSE << "// Transform: " >> \o TextOf(operation)
         \o << "\nconst items = " >> \o TextOf(source_items)
         \o << ";\nreturn items.map(json => ({json}));" >>

\* N8NCompiler._compile_transform
CompileTransform(node, id) ==
    NodeResult("", CodeNode(id, node,
        TransformCode(GetOr(node.inputs, "operation", StrValue(MapWord)),
            ResolveReference(GetOr(node.inputs, "source", Lit("$input.all()"))),
            GetOr(node.inputs, "template", StrValue(<< >>)),
            GetOr(node.inputs, "condition", Lit("true")),
            GetOr(node.inputs, "initial", Lit("{}")))))

\* The parameters of _compile_branch: the same for every node.
BranchParameters ==
    [k \in {"conditions"} |->
        Dict([j \in {"options", "conditions", "combinator"} |->
            CASE j = "options" ->
                    Dict([f \in {"caseSensitive", "leftValue"} |->
                        IF f = "caseSensitive" THEN Value("bool", << "True" >>)
                        ELSE StrValue(<< >>)])
              [] j = "conditions" ->
                    List(<< Dict([f \in {"leftValue", "rightValue", "operator"} |->
                        CASE f = "leftValue" -> Lit("={{ $json }}")
                          [] f = "rightValue" -> StrValue(<< >>)
                          [] OTHER ->
                              Dict([g \in {"type", "operation"} |->
                                  IF g = "type" THEN Lit("boolean")
                                  ELSE Lit("true")])]) >>)
              [] OTHER -> Lit("and")])]

\* N8NCompiler._compile_branch
CompileBranch(node, id) ==
    NodeResult("", N8NNode(id, SanitizeName(node.id), "n8n-nodes-base.if",
                           << 0, 0 >>, BranchParameters, 2))

\* N8NCompiler._compile_loop
CompileLoop(node, id) ==
    NodeResult("", N8NNode(id, SanitizeName(node.id),
        "n8n-nodes-base.splitInBatches", << 0, 0 >>,
        [k \in {"batchSize", "options"} |->
            IF k = "batchSize"
            THEN GetOr(node.inputs, "batch_size", Value("int", << "1" >>))
            ELSE Dict(EmptyItems)],
        3))

\* {"role": role, "content": content}
ChatMessage(role, content) ==
    Dict([k \in {"role", "content"} |->
        IF k = "role" THEN Lit(role) ELSE content])

\* N8NCompiler._compile_llm_call
CompileLlmCall(node, id) ==
    NodeResult("", N8NNode(id, SanitizeName(node.id),
        "@n8n/n8n-nodes-langchain.openAi", << 0, 0 >>,
        [k \in {"resource", "operation", "model", "messages", "options"} |->
            CASE k = "resource" -> Lit("chat")
              [] k = "operation" -> Lit("message")
              [] k = "model" -> GetOr(node.inputs, "model", Lit("gpt-4"))
              [] k = "messages" ->
                    Dict([j \in {"values"} |->
                        List(<< ChatMessage("system",
                                    GetOr(node.inputs, "system_prompt",
                                          StrValue(<< >>))),
                                ChatMessage("user",
                                    GetOr(node.inputs, "prompt",
                                          StrValue(<< >>))) >>)])
              [] OTHER ->
                    Dict([j \in {"temperature", "maxTokens"} |->
                        IF j = "temperature"
                        THEN GetOr(node.inputs, "temperature",
                                   Value("float", << "0.7" >>))
                        ELSE GetOr(node.inputs, "max_tokens",
                                   Value("int", << "1000" >>))])],
        1))

\* json.dumps(data) of _compile_log
DataText(data) ==
    IF data.kind = "dict" /\ "items" \in DOMAIN data THEN JsonDumps(data.items)
    ELSE IF data.kind = "str" THEN << "\"" >> \o data.text \o << "\"" >>
    ELSE << "<", data.kind, ">" >>

\* The jsCode of _compile_log: level.upper() appears twice.
LogCode(level, message, data) ==
    << "// Log: " >> \o Upper(level.text) \o << "\nconsole.log('" >>
    \o Upper(level.text) \o << ": " >> \o TextOf(message)
    \o << "');\nconsole.log('Data:', " >> \o DataText(data)
    \o << ");\n\n// Pass through input data\nreturn $input.all();" >>

\* _compile_log once level, message and data are read: level.upper() needs
\* a str.
LogNode(node, id, level, message, data) ==
    IF level.kind # "str"
    THEN NodeFailed("AttributeError", << "object has no attribute upper" >>)
    ELSE NodeResult("", CodeNode(id, node, LogCode(level, message, data)))

\* N8NCompiler._compile_log
CompileLog(node, id) ==
    LogNode(node, id, GetOr(node.inputs, "level", Lit("info")),
            GetOr(node.inputs, "message", StrValue(<< >>)),
            GetOr(node.inputs, "data", Dict(EmptyItems)))

\* N8NCompiler._compile_generic
CompileGeneric(node, id) ==
    NodeResult("", CodeNode(id, node,
        << "// Generic node for primitive: " >> \o node.primitive_id
        \o << "\n// Inputs: " >> \o JsonDumps(node.inputs)
        \o << "\nreturn $input.all();" >>))

\* What _map_parameters holds between two inputs: the exception raised
\* ("" if none) and the parameters so far.
Mapped(exc, items) == [exc |-> exc, items |-> items]

\* Result of the nested store below `key`: the nested dict is put in d.
Nest(d, key, inner) ==
    IF inner.exc # "" THEN Mapped(inner.exc, d)
    ELSE Mapped("", Put(d, key, Dict(inner.items)))

RECURSIVE SetPath(_, _, _, _)
\* The nested store of _map_parameters for parts[k..]: a missing part
\* becomes a new dict, an existing dict is entered, and anything else under
\* the part cannot take an item (TypeError).
SetPath(d, parts, k, value) ==
    IF k = Len(parts) THEN Mapped("", Put(d, parts[k], value))
    ELSE IF parts[k] \notin DOMAIN d
    THEN Nest(d, parts[k], SetPath(EmptyItems, parts, k + 1, value))
    ELSE IF d[parts[k]].kind = "dict" /\ "items" \in DOMAIN d[parts[k]]
    THEN Nest(d, parts[k], SetPath(d[parts[k]].items, parts, k + 1, value))
    ELSE Mapped("TypeError", d)

\* The reference rewriting of _map_parameters: only for a str that holds
\* "{{ ref:".
MappedValue(value) ==
    IF value.kind = "str" /\ Contains(value.text, RefMarker)
    THEN ResolveReference(value)
    ELSE value

\* param_map.get(input_name, input_name)
N8nParam(param_map, input_name) ==
    IF input_name \in DOMAIN param_map THEN param_map[input_name]
    ELSE input_name

RECURSIVE MapFrom(_, _, _, _, _)
\* The loop of _map_parameters from the i-th input on.
MapFrom(inputs, keys, i, param_map, acc) ==
    IF acc.exc # "" \/ i > Len(keys) THEN acc
    ELSE MapFrom(inputs, keys, i + 1, param_map,
                 SetPath(acc.items, NameParts(N8nParam(param_map, keys[i])), 1,
                         MappedValue(inputs[keys[i]])))

\* N8NCompiler._map_parameters
MapParameters(inputs, param_map) ==
    MapFrom(inputs, KeysOf(inputs), 1, param_map, Mapped("", EmptyItems))

\* The node of the standard parameter mapping, once _map_parameters
\* returned or raised m.
StandardNode(node, id, n8n_def, m) ==
    IF m.exc # "" THEN NodeFailed(m.exc, << >>)
    ELSE NodeResult("", N8NNode(id, SanitizeName(node.id), n8n_def.type,
                                << 0, 0 >>, m.items, n8n_def.version))

\* getattr(self, n8n_def["custom_handler"])(node, n8n_def)
CustomHandler(node, id, custom_handler) ==
    CASE custom_handler = "_compile_transform" -> CompileTransform(node, id)
      [] custom_handler = "_compile_branch" -> CompileBranch(node, id)
      [] custom_handler = "_compile_loop" -> CompileLoop(node, id)
      [] custom_handler = "_compile_llm_call" -> CompileLlmCall(node, id)
      [] OTHER -> CompileLog(node, id)

\* _compile_node for a node with a primitive_id found in PARTICLE_TO_N8N.
CompileParticle(node, id, n8n_def) ==
    IF n8n_def.custom_handler # ""
    THEN CustomHandler(node, id, n8n_def.custom_handler)
    ELSE StandardNode(node, id, n8n_def,
                      MapParameters(node.inputs, n8n_def.param_map))

\* N8NCompiler._compile_node
CompileNode(node, id) ==
    IF node.fallback # NoFallback THEN CompileFallback(node, id)
    ELSE IF node.primitive_id = NoneStr
    THEN NodeFailed("ValueError",
            << "Node " >> \o node.id \o << " has no primitive_id or fallback" >>)
    ELSE IF node.primitive_id \notin ParticleIds THEN CompileGeneric(node, id)
    ELSE CompileParticle(node, id, ParticleToN8n(node.primitive_id))

(***************************************************************************)
(* Compiler (compiler/n8n.py): compile and _build_connections.             *)
(***************************************************************************)
\* "__trigger__", the key of the trigger node in node_id_map
TriggerKey == <<"_", "_", "t", "r", "i", "g", "g", "e", "r", "_", "_">>

\* What the node loop of compile holds: the exception that ended it ("" if
\* none) with its message, the nodes so far and node_id_map.
Compiling(exc, message, nodes, node_id_map) ==
    [exc |-> exc, message |-> message, nodes |-> nodes,
     node_id_map |-> node_id_map]

\* Positioned, but the row also depends on the uuid of the node.
Positioned_ByUuid(node, i) ==
    [node EXCEPT !.position =
        << 250 + i * 250, 300 + ((i - 1 + node.id.seed) % 3) * 100 >>]

\* n8n_node.position = [x_pos, y_pos + (i % 3) * y_step] for the i-th plan
\* node (i counts from 1 here, from 0 in the code).
Positioned(node, i) ==
    [node EXCEPT !.position = << 250 + i * 250, 300 + ((i - 1) % 3) * 100 >>]

\* NodeTurn, but a plan node whose id was already emitted is skipped.
NodeTurn_SkipsKnownId(acc, plan_node, i, r) ==
    IF r.exc # "" THEN Compiling(r.exc, r.message, acc.nodes, acc.node_id_map)
    ELSE IF plan_node.id \in DOMAIN acc.node_id_map THEN acc
    ELSE Compiling("", << >>, Append(acc.nodes, Positioned(r.node, i)),
                   Put(acc.node_id_map, plan_node.id, r.node.name))

\* One turn of the node loop of compile, r being what _compile_node gave.
NodeTurn(acc, plan_node, i, r) ==
    IF r.exc # "" THEN Compiling(r.exc, r.message, acc.nodes, acc.node_id_map)
    ELSE Compiling("", << >>, Append(acc.nodes, Positioned(r.node, i)),
                   Put(acc.node_id_map, plan_node.id, r.node.name))

RECURSIVE CompileNodesFrom(_, _, _, _)
\* The node loop of compile from the i-th plan node on.
CompileNodesFrom(p, seed, i, acc) ==
    IF acc.exc # "" \/ i > Len(p.nodes) THEN acc
    ELSE CompileNodesFrom(p, seed, i + 1,
            NodeTurn(acc, p.nodes[i], i, CompileNode(p.nodes[i], Uuid(seed, i))))

\* {"node": name, "type": "main", "index": 0}
Target(name) == [node |-> name, type |-> "main", index |-> 0]

RECURSIVE FirstNodesFrom(_, _)
\* [node.id for node in plan.nodes if node.id not in incoming]
FirstNodesFrom(p, i) ==
    IF i > Len(p.nodes) THEN << >>
    ELSE (IF p.nodes[i].id \in { p.edges[j].to_node : j \in 1..Len(p.edges) }
          THEN << >>
          ELSE << p.nodes[i].id >>) \o FirstNodesFrom(p, i + 1)

EmptyConnections == [n \in {} |-> [main |-> << << >> >>]]

\* TriggerConnections, but only the first of the first nodes is connected.
TriggerConnections_FirstOnly(first_nodes, node_id_map, trigger_name) ==
    IF Len(first_nodes) = 0 THEN EmptyConnections
    ELSE Put(EmptyConnections, trigger_name,
             [main |-> << << Target(node_id_map[first_nodes[1]]) >> >>])

\* The connections of the trigger: none if there is no first node.
TriggerConnections(first_nodes, node_id_map, trigger_name) ==
    IF Len(first_nodes) = 0 THEN EmptyConnections
    ELSE Put(EmptyConnections, trigger_name,
             [main |-> << [k \in 1..Len(first_nodes) |->
                              Target(node_id_map[first_nodes[k]])] >>])

\* connections[source_name]["main"][0].append(target)
Connect(connections, source_name, target_name) ==
    Put(connections, source_name,
        [main |-> << (IF source_name \in DOMAIN connections
                      THEN connections[source_name].main[1]
                      ELSE << >>) \o << Target(target_name) >> >>])

\* `if source_name and target_name`: node_id_map.get gave a name for both
\* ends and neither name is empty.
BothNamed(node_id_map, edge) ==
    /\ edge.from_node \in DOMAIN node_id_map
    /\ edge.to_node \in DOMAIN node_id_map
    /\ Len(node_id_map[edge.from_node]) > 0
    /\ Len(node_id_map[edge.to_node]) > 0

RECURSIVE ConnectEdgesFrom(_, _, _, _)
\* The edge loop of _build_connections from the j-th edge on.
ConnectEdgesFrom(p, node_id_map, j, connections) ==
    IF j > Len(p.edges) THEN connections
    ELSE ConnectEdgesFrom(p, node_id_map, j + 1,
            IF BothNamed(node_id_map, p.edges[j])
            THEN Connect(connections, node_id_map[p.edges[j].from_node],
                         node_id_map[p.edges[j].to_node])
            ELSE connections)

\* N8NCompiler._build_connections
BuildConnections(p, node_id_map, trigger_name) ==
    ConnectEdgesFrom(p, node_id_map, 1,
        TriggerConnections(FirstNodesFrom(p, 1), node_id_map, trigger_name))

PlanVersion == << "1.0.0" >>

\* The workflow dict built at the end of compile.
Workflow(p, nodes, connections, version_id) ==
    [name |-> p.metadata.name, nodes |-> nodes, connections |-> connections,
     active |-> FALSE, settings |-> [executionOrder |-> "v1"],
     versionId |-> version_id,
     meta |-> [maicrosoft_plan_id |-> p.metadata.id,
               maicrosoft_version |-> PlanVersion]]

\* Placeholder carried by a compile that raised.
NoWorkflow ==
    [name |-> << >>, nodes |-> << >>, connections |-> EmptyConnections,
     active |-> FALSE, settings |-> [executionOrder |-> "v1"],
     versionId |-> Uuid(0, 0),
     meta |-> [maicrosoft_plan_id |-> << >>, maicrosoft_version |-> << >>]]

\* What compile leaves: the exception raised ("" if none) with its message,
\* and the workflow returned.
Compiled(exc, message, workflow) ==
    [exc |-> exc, message |-> message, workflow |-> workflow]

\* compile after its node loop ended in acc.
AfterNodes(p, seed, trigger_name, acc) ==
    IF acc.exc # "" THEN Compiled(acc.exc, acc.message, NoWorkflow)
    ELSE Compiled("", << >>,
            Workflow(p, acc.nodes,
                     BuildConnections(p, acc.node_id_map, trigger_name),
                     Uuid(seed, Len(p.nodes) + 1)))

\* compile once the trigger node is built.
WithTrigger(p, seed, trigger_node) ==
    AfterNodes(p, seed, trigger_node.name,
        CompileNodesFrom(p, seed, 1,
            Compiling("", << >>,
                      << [trigger_node EXCEPT !.position = << 250, 300 >>] >>,
                      Put([k \in {} |-> << >>], TriggerKey, trigger_node.name))))

\* N8NCompiler.compile
Compile(p, seed) == WithTrigger(p, seed, CompileTrigger(p, Uuid(seed, 0)))

(***************************************************************************)
(* Plans given to validate.                                                *)
(***************************************************************************)
NodeA == <<"a">>
NodeB == <<"b">>
NodeC == <<"c">>

NodeIdSet == {NodeA, NodeB, NodeC}

NodeIdSeq == <<NodeA, NodeB, NodeC>>

PlanId == <<"p", "1">>
TestPlanId == <<"t", "e", "s", "t", "-", "1">>
PlanName == <<"n">>

\* inputs={"method": "GET", "url": "h"}
GoodInputs == ("url" :> StrValue(<<"h">>)) @@ ("method" :> StrValue(GET))

\* inputs={"url": 5}
BadInputs == ("url" :> IntValue)

SafeCode == CodeBlock("javascript", <<"r", "e", "t">>)
UnsafeCode == CodeBlock("javascript", <<"e", "v", "a", "l", "(", "x", ")">>)

GraphNode(id) == PlanNode(id, P001, GoodInputs, NoFallback)

EdgeSet == { Edge(f, t) : f \in NodeIdSet, t \in NodeIdSet }

GraphPlan(ids, es) ==
    Plan(PlanId, PlanName, FALSE, "low", NoTrigger,
         [i \in 1..Len(ids) |-> GraphNode(ids[i])], es)

\* Plans of well-formed P001 steps: every list of node ids (repeats
\* included), with at most one edge.
NodeListPlans ==
    { GraphPlan(ids, es) :
        ids \in SeqsBetween(NodeIdSet, 0, MaxNodes),
        es \in SeqsBetween(EdgeSet, 0, 1) }

\* Plans of well-formed P001 steps over two or three declared nodes in any
\* order, with every list of edges (self-loops, repeats and endpoints that
\* are not declared included).
EdgeListPlans ==
    { GraphPlan(ids, es) :
        ids \in { <<NodeA, NodeB>>, <<NodeA, NodeB, NodeC>>,
                  <<NodeA, NodeC, NodeB>>, <<NodeB, NodeA, NodeC>>,
                  <<NodeB, NodeC, NodeA>>, <<NodeC, NodeA, NodeB>>,
                  <<NodeC, NodeB, NodeA>> },
        es \in SeqsBetween(EdgeSet, 0, MaxEdges) }

GraphPlans == NodeListPlans \cup EdgeListPlans

\* Plans without edges; the primitive reference, the fallback and the
\* inputs of every node vary, and so does allow_fallback.
NodeShapes ==
    [primitive_id : FixtureIds \cup {NoneStr},
     inputs : {EmptyInputs, GoodInputs},
     fallback : {NoFallback, SafeCode}]

NodePlans ==
    { Plan(PlanId, PlanName, af, "low", NoTrigger,
           [i \in 1..Len(shapes) |->
               PlanNode(NodeIdSeq[((i - 1) % 3) + 1], shapes[i].primitive_id,
                        shapes[i].inputs, shapes[i].fallback)],
           << >>) :
        shapes \in SeqsBetween(NodeShapes, 1, MaxDetailNodes),
        af \in BOOLEAN }

\* One-node plans; metadata, settings and trigger vary.
SettingsPlans ==
    { Plan(id, name, af, risk, trigger, << node >>, << >>) :
        id \in {EmptyStr, PlanId, TestPlanId},
        name \in {EmptyStr, PlanName},
        af \in BOOLEAN,
        risk \in {"low", "medium", "high"},
        trigger \in {NoTrigger, [type |-> "manual"]},
        node \in { PlanNode(NodeA, P001, GoodInputs, NoFallback),
                   PlanNode(NodeA, P001, BadInputs, NoFallback),
                   PlanNode(NodeA, NoneStr, EmptyInputs, SafeCode),
                   PlanNode(NodeA, NoneStr, EmptyInputs, UnsafeCode) } }

\* Fallback code that holds "exec(", both calls, a call name without its
\* parenthesis, and no code at all.
ExecCode == CodeBlock("python", <<"e", "x", "e", "c", "(", "x", ")">>)
BothCode ==
    CodeBlock("javascript",
              <<"e", "v", "a", "l", "(", "e", "x", "e", "c", "(", ")", ")">>)
NearCode == CodeBlock("javascript", <<"e", "v", "a", "l", " ", "(">>)
NoCode == CodeBlock("javascript", << >>)

\* The nodes the policy layer tells apart: a step without fallback and a
\* fallback node for every kind of code.
PolicyNodes(id) ==
    { GraphNode(id) }
    \cup { PlanNode(id, NoneStr, EmptyInputs, code) :
             code \in {SafeCode, UnsafeCode, ExecCode, BothCode, NearCode,
                       NoCode} }

\* Plans of one or two such nodes under every risk level.
PolicyPlans ==
    { Plan(PlanId, PlanName, af, risk, NoTrigger, nodes, << >>) :
        af \in BOOLEAN,
        risk \in {"low", "medium", "high"},
        nodes \in { << n >> : n \in PolicyNodes(NodeA) }
                  \cup { << n, m >> : n \in PolicyNodes(NodeA),
                                      m \in PolicyNodes(NodeB) } }

\* Nodes that fail in Layer 2 (unknown primitive, nothing to run) or in
\* Layer 3 (inputs that break the interface).
FailingNodes(id) ==
    { PlanNode(id, P999, EmptyInputs, NoFallback),
      PlanNode(id, NoneStr, EmptyInputs, NoFallback),
      PlanNode(id, P001, BadInputs, NoFallback) }

\* Plans of two such nodes, with or without a plan id, and two edges among
\* a self-loop, an edge to a node that is not declared and an edge from it.
LayeredPlans ==
    { Plan(id, PlanName, FALSE, "low", NoTrigger, << n, m >>, es) :
        id \in {EmptyStr, PlanId},
        n \in FailingNodes(NodeA),
        m \in FailingNodes(NodeB),
        es \in SeqsBetween({ Edge(NodeA, NodeA), Edge(NodeA, NodeC),
                             Edge(NodeC, NodeB) }, 2, 2) }

PlanInputs ==
    GraphPlans \cup NodePlans \cup SettingsPlans \cup PolicyPlans
        \cup LayeredPlans

(***************************************************************************)
(* The validator over a registry: state and actions.                       *)
(***************************************************************************)
\* No caller is inside a registry call.
NoThreads == << >>

Init ==
    /\ source = FixtureSource
    /\ cache = EmptyCache
    /\ calls = << >>
    /\ plan \in PlanInputs
    /\ report = NoReport
    /\ threads = NoThreads
    /\ rules = DefaultRules

\* validator.validate(plan)
ValidateCall ==
    /\ report' = Validate(plan, cache, source).report
    /\ cache' = Validate(plan, cache, source).cache
    /\ UNCHANGED <<source, calls, plan, threads, rules>>

\* registry.clear_cache()
ClearCache ==
    /\ cache' = EmptyCache
    /\ UNCHANGED <<source, calls, plan, report, threads, rules>>

Next == ValidateCall \/ ClearCache

Spec == Init /\ [][Next]_vars

(***************************************************************************)
(* The registry called directly: state and actions.  calls is the log of   *)
(* the calls made, with what each returned and whether it went to the      *)
(* loader.                                                                 *)
(***************************************************************************)
Call(op, id, use_cache, exc, value, found, loaded) ==
    [op |-> op, id |-> id, use_cache |-> use_cache, exc |-> exc,
     value |-> value, found |-> found, loaded |-> loaded]

RegistryPlan ==
    Plan(PlanId, PlanName, FALSE, "low", NoTrigger,
         << PlanNode(NodeA, P001, GoodInputs, NoFallback) >>, << >>)

InitRegistry ==
    /\ source = FixtureSource
    /\ cache = EmptyCache
    /\ calls = << >>
    /\ plan = RegistryPlan
    /\ report = NoReport
    /\ threads = NoThreads
    /\ rules = DefaultRules

GetEntry(id, use_cache, g) ==
    Call("get", id, use_cache, g.exc, g.value, g.exc = "", g.loaded)

\* registry.get(id, use_cache)
GetCall(id, use_cache) ==
    /\ Len(calls) < MaxCalls
    /\ cache' = RegistryGet(cache, source, id, use_cache).cache
    /\ calls' = Append(calls,
           GetEntry(id, use_cache, RegistryGet(cache, source, id, use_cache)))
    /\ UNCHANGED <<source, plan, report, threads, rules>>

\* Log entry of an exists call: value is the primitive its inner get
\* returned and found is what exists returned.
ExistsEntry(id, e) ==
    Call("exists", id, TRUE, e.exc,
         IF e.value THEN e.cache[id] ELSE NoPrimitive, e.value, e.loaded)

\* registry.exists(id)
ExistsCall(id) ==
    /\ Len(calls) < MaxCalls
    /\ cache' = RegistryExists(cache, source, id).cache
    /\ calls' = Append(calls, ExistsEntry(id, RegistryExists(cache, source, id)))
    /\ UNCHANGED <<source, plan, report, threads, rules>>

\* registry.clear_cache()
ClearCacheCall ==
    /\ Len(calls) < MaxCalls
    /\ cache' = EmptyCache
    /\ calls' = Append(calls,
           Call("clear_cache", NoneStr, FALSE, "", NoPrimitive, FALSE, FALSE))
    /\ UNCHANGED <<source, plan, report, threads, rules>>

NextRegistry ==
    \/ \E id \in RegIds, use_cache \in BOOLEAN : GetCall(id, use_cache)
    \/ \E id \in RegIds : ExistsCall(id)
    \/ ClearCacheCall

SpecRegistry == InitRegistry /\ [][NextRegistry]_vars

(***************************************************************************)
(* Several callers inside registry.get on one shared registry.  A caller   *)
(* runs get statement by statement; between two statements any other       *)
(* caller may run.  The dict operations themselves (`in`, subscript read,   *)
(* subscript store) are single steps.  No caller calls clear_cache.         *)
(***************************************************************************)
MaxThreads == 2

Threads == 1..MaxThreads

\* Ids the callers ask for: two that load and one that is absent.
ConcurrentIds == {P001, P002, P999}

\* The local `primitive` of get before load_primitive returned.
NoLoad == [exc |-> "", value |-> NoPrimitive]

\* A caller: where it stands in get (pc), its argument, whether the id was
\* in the cache when it entered get (warm), its local `primitive` (r), what
\* it returned or raised, and whether it went to the loader.
Caller(pc, id, warm, r, exc, value, loaded) ==
    [pc |-> pc, id |-> id, warm |-> warm, r |-> r, exc |-> exc,
     value |-> value, loaded |-> loaded]

IdleCaller == Caller("idle", NoneStr, FALSE, NoLoad, "", NoPrimitive, FALSE)

InitConcurrent ==
    /\ source = FixtureSource
    /\ cache = EmptyCache
    /\ calls = << >>
    /\ plan = RegistryPlan
    /\ report = NoReport
    /\ threads = [t \in Threads |-> IdleCaller]
    /\ rules = DefaultRules

InFlight == { t \in Threads : threads[t].pc \notin {"idle", "done"} }

\* A caller enters get(id) with the default use_cache.
GetInvoke(t, id) ==
    /\ threads[t].pc \in {"idle", "done"}
    /\ Len(calls) + Cardinality(InFlight) < MaxCalls
    /\ threads' = [threads EXCEPT ![t] =
           Caller("check", id, id \in DOMAIN cache, NoLoad, "", NoPrimitive,
                  FALSE)]
    /\ UNCHANGED <<source, cache, calls, plan, report, rules>>

\* CacheHit that always misses.
CacheHit_Never(c, primitive_id, use_cache) == FALSE

\* `use_cache and primitive_id in self._cache`
CacheHit(c, primitive_id, use_cache) == use_cache /\ primitive_id \in DOMAIN c

\* The caller evaluates the condition of the `if`.
GetCheck(t) ==
    /\ threads[t].pc = "check"
    /\ threads' = [threads EXCEPT ![t].pc =
           IF CacheHit(cache, threads[t].id, TRUE) THEN "hit" ELSE "load"]
    /\ UNCHANGED <<source, cache, calls, plan, report, rules>>

\* What a caller holds once get is left.
CallerDone(c, exc, value, loaded) ==
    Caller("done", c.id, c.warm, c.r, exc, value, loaded)

\* `return self._cache[primitive_id]`: a key that is gone raises KeyError.
GetHit(t) ==
    /\ threads[t].pc = "hit"
    /\ threads' = [threads EXCEPT ![t] =
           IF threads[t].id \in DOMAIN cache
           THEN CallerDone(threads[t], "", cache[threads[t].id], FALSE)
           ELSE CallerDone(threads[t], "KeyError", NoPrimitive, FALSE)]
    /\ calls' = Append(calls, GetEntry(threads[t].id, TRUE,
           IF threads[t].id \in DOMAIN cache
           THEN [exc |-> "", value |-> cache[threads[t].id], loaded |-> FALSE]
           ELSE [exc |-> "KeyError", value |-> NoPrimitive, loaded |-> FALSE]))
    /\ UNCHANGED <<source, cache, plan, report, rules>>

\* `primitive = self.loader.load_primitive(primitive_id)` raised: get is
\* left with the exception.
GetLoadRaise(t) ==
    /\ threads[t].pc = "load"
    /\ load_primitive(source, threads[t].id).exc # ""
    /\ threads' = [threads EXCEPT ![t] =
           CallerDone(threads[t], load_primitive(source, threads[t].id).exc,
                    NoPrimitive, TRUE)]
    /\ calls' = Append(calls, GetEntry(threads[t].id, TRUE,
           [exc |-> load_primitive(source, threads[t].id).exc,
            value |-> NoPrimitive, loaded |-> TRUE]))
    /\ UNCHANGED <<source, cache, plan, report, rules>>

\* `primitive = self.loader.load_primitive(primitive_id)` returned.
GetLoad(t) ==
    /\ threads[t].pc = "load"
    /\ load_primitive(source, threads[t].id).exc = ""
    /\ threads' = [threads EXCEPT ![t].pc = "store",
                                  ![t].r = load_primitive(source, threads[t].id),
                                  ![t].loaded = TRUE]
    /\ UNCHANGED <<source, cache, calls, plan, report, rules>>

\* `self._cache[primitive_id] = primitive; return primitive`
GetStore(t) ==
    /\ threads[t].pc = "store"
    /\ cache' = GetLoaded(cache, threads[t].id, threads[t].r).cache
    /\ threads' = [threads EXCEPT ![t] =
           CallerDone(threads[t], "", threads[t].r.value, TRUE)]
    /\ calls' = Append(calls, GetEntry(threads[t].id, TRUE,
           [exc |-> "", value |-> threads[t].r.value, loaded |-> TRUE]))
    /\ UNCHANGED <<source, plan, report, rules>>

NextConcurrent ==
    \/ \E t \in Threads, id \in ConcurrentIds : GetInvoke(t, id)
    \/ \E t \in Threads : GetCheck(t)
    \/ \E t \in Threads : GetHit(t)
    \/ \E t \in Threads : GetLoadRaise(t)
    \/ \E t \in Threads : GetLoad(t)
    \/ \E t \in Threads : GetStore(t)

SpecConcurrent == InitConcurrent /\ [][NextConcurrent]_vars

(***************************************************************************)
(* validate_inputs called directly on primitives whose interfaces declare  *)
(* every field type, required fields and defaults.  The arguments of the   *)
(* call are the primitive_id and the inputs of the plan's node.            *)
(***************************************************************************)
MaxInputs == 2

InterfaceIds == {A001, A002}

InterfaceSource == [id \in InterfaceIds |-> "stable"]

Expr == <<"{", "{", "x">>
OneBrace == <<"{", "x">>

\* Values of every Python type a JSON document gives, and the strings that
\* decide the branches: an enum member, a `{{` expression, and a string
\* that only starts with one brace.
InputValues ==
    { StrValue(GET), StrValue(Expr), StrValue(OneBrace), IntValue,
      Value("float", <<>>), Value("bool", <<>>), Value("dict", <<>>),
      Value("list", <<>>), NoneValue }

\* Every inputs dict with up to MaxInputs keys taken from the declared names.
InputMaps(names) ==
    UNION { [K -> InputValues] :
              K \in { S \in SUBSET names : Cardinality(S) <= MaxInputs } }

FieldNames(fields) == { fields[i].name : i \in 1..Len(fields) }

InputsPlan(id, inputs) ==
    Plan(PlanId, PlanName, FALSE, "low", NoTrigger,
         << PlanNode(NodeA, id, inputs, NoFallback) >>, << >>)

InitInputs ==
    /\ source = InterfaceSource
    /\ cache = EmptyCache
    /\ calls = << >>
    /\ \E id \in InterfaceIds :
          \E inputs \in InputMaps(FieldNames(InterfaceInputs(id))) :
              plan = InputsPlan(id, inputs)
    /\ report = NoReport
    /\ threads = NoThreads
    /\ rules = DefaultRules

\* Log entry of a validate_inputs call.
InputsEntry(id, inputs, r) ==
    [op |-> "validate_inputs", id |-> id, inputs |-> inputs, exc |-> r.exc,
     ok |-> r.ok, errors |-> r.errors]

\* registry.validate_inputs(node.primitive_id, node.inputs)
ValidateInputsCall ==
    /\ Len(calls) < MaxCalls
    /\ cache' = RegistryValidateInputs(cache, source,
                    plan.nodes[1].primitive_id, plan.nodes[1].inputs).cache
    /\ calls' = Append(calls,
           InputsEntry(plan.nodes[1].primitive_id, plan.nodes[1].inputs,
               RegistryValidateInputs(cache, source,
                   plan.nodes[1].primitive_id, plan.nodes[1].inputs)))
    /\ UNCHANGED <<source, plan, report, threads, rules>>

NextInputs == ValidateInputsCall \/ ClearCache

SpecInputs == InitInputs /\ [][NextInputs]_vars

(***************************************************************************)
(* Plans given to compile, and the compiler's state and actions.  calls is *)
(* the log of the compile runs on the plan.                                *)
(***************************************************************************)
MaxCompileNodes == 2
MaxCompiles == 2

IdUpperA == <<"A">>
IdAB == <<"a", "_", "b">>
IdTrigger == <<"t", "r", "i", "g", "g", "e", "r">>

\* Node ids: two that differ only in case, one with an underscore, the
\* empty id, and one that reads like the trigger's name.
CompileNodeIds == {EmptyStr, NodeA, IdUpperA, IdAB, IdTrigger}

\* Plans of well-formed P001 steps under every list of these ids, with at
\* most one edge between any two of the ids.
NamedPlans ==
    { GraphPlan(ids, es) :
        ids \in SeqsBetween(CompileNodeIds, 1, MaxCompileNodes),
        es \in SeqsBetween({ Edge(f, t) : f \in CompileNodeIds,
                                          t \in CompileNodeIds }, 0, 1) }

\* Plans of three well-formed P001 steps with every list of forward edges
\* and one backward edge (repeats included).
WiredPlans ==
    { GraphPlan(NodeIdSeq, es) :
        es \in SeqsBetween({ Edge(NodeA, NodeB), Edge(NodeA, NodeC),
                             Edge(NodeB, NodeC), Edge(NodeC, NodeA) },
                           0, MaxEdges) }

Info == <<"i", "n", "f", "o">>

\* "{{ ref: a.x }}"
RefA ==
    <<"{", "{", " ", "r", "e", "f", ":", " ", "a", ".", "x", " ", "}", "}">>

\* The inputs the node kinds are tried with.
KindInputs ==
    { EmptyInputs, GoodInputs,
      ("level" :> IntValue),
      ("level" :> StrValue(Info)) @@ ("message" :> StrValue(<<"h">>)),
      ("opt" :> StrValue(<<"h">>)) @@ ("opt.x" :> StrValue(<<"h">>)),
      ("sub.y" :> StrValue(<<"h">>)) @@ ("sub" :> StrValue(<<"h">>)),
      ("url" :> StrValue(<<"h">>)) @@ ("headers" :> StrValue(<<"h">>))
          @@ ("headerParameters" :> IntValue),
      ("operation" :> StrValue(FilterWord)) @@ ("source" :> StrValue(RefA)) }

KindShapes ==
    [primitive_id : {P001, P004, P010, P999, NoneStr},
     inputs : KindInputs,
     fallback : {NoFallback, SafeCode}]

KindNode(id, shape) ==
    PlanNode(id, shape.primitive_id, shape.inputs, shape.fallback)

\* Plans of one node of every kind, alone or next to a well-formed step or
\* to a node that has neither primitive_id nor fallback, in both orders.
KindPlans ==
    { Plan(PlanId, PlanName, TRUE, "low", NoTrigger, nodes, << >>) :
        nodes \in UNION { { << KindNode(NodeA, shape) >>,
                            << KindNode(NodeA, shape), other >>,
                            << other, KindNode(NodeA, shape) >> } :
                          shape \in KindShapes,
                          other \in { GraphNode(NodeB),
                                      PlanNode(NodeB, NoneStr, EmptyInputs,
                                               NoFallback) } } }

\* "{{ ws ref: ws target field ws }}"
RefText(ws, target, field) ==
    OpenBraces \o ws \o RefWord \o ws \o target \o field \o ws \o CloseBraces

\* Strings that hold a placeholder naming target: with and without a field,
\* with no, one and two blanks inside the braces, inside other text, and
\* followed by a second placeholder.
RefTexts(target) ==
    { RefText(ws, target, field) :
        ws \in { << >>, << " " >>, << " ", " " >> },
        field \in { << >>, << ".", "x" >> } }
    \cup { << "h" >> \o RefText(<< " " >>, target, << >>) \o << "h" >>,
           RefText(<< " " >>, target, << >>)
               \o RefText(<< " " >>, NodeB, << >>) }

\* A step whose id is the target, followed by a node of some kind whose
\* input holds a placeholder naming the target; an edge joins them.
RefPlansTo(target) ==
    { Plan(PlanId, PlanName, FALSE, "low", NoTrigger,
           << GraphNode(target),
              PlanNode(NodeB, pid, (key :> StrValue(text)), NoFallback) >>,
           << Edge(target, NodeB) >>) :
        pid \in {P001, P004, P010, P999},
        key \in {"url", "source", "message"},
        text \in RefTexts(target) }

RefPlans == UNION { RefPlansTo(target) : target \in {NodeA, IdUpperA, IdAB} }

Cron == <<"0", " ", "9">>
Path == <<"/", "m">>

\* One-step plans under every trigger.
TriggerPlans ==
    { Plan(PlanId, PlanName, FALSE, "low", trigger,
           << GraphNode(NodeA) >>, << >>) :
        trigger \in {NoTrigger}
            \cup { Trigger(type, config) :
                     type \in {"manual", "webhook", "schedule", "event"},
                     config \in { EmptyItems, ("cron" :> StrValue(Cron)),
                                  ("path" :> StrValue(Path)) } } }

CompilePlans ==
    NamedPlans \cup WiredPlans \cup KindPlans \cup RefPlans \cup TriggerPlans

InitCompile ==
    /\ source = FixtureSource
    /\ cache = EmptyCache
    /\ calls = << >>
    /\ plan \in CompilePlans
    /\ report = NoReport
    /\ threads = NoThreads
    /\ rules = DefaultRules

\* Log entry of a compile run.
CompileEntry(seed, r) ==
    [op |-> "compile", seed |-> seed, exc |-> r.exc, message |-> r.message,
     workflow |-> r.workflow]

\* compiler.compile(plan); the uuids of the run are those of the seed.
CompileCall(seed) ==
    /\ Len(calls) < MaxCompiles
    /\ calls' = Append(calls, CompileEntry(seed, Compile(plan, seed)))
    /\ UNCHANGED <<source, cache, plan, report, threads, rules>>

\* Two runs draw either the same uuids or different ones.
Seeds == {1, 2}

NextCompile == \E seed \in Seeds : CompileCall(seed)

SpecCompile == InitCompile /\ [][NextCompile]_vars

(***************************************************************************)
(* validate called again and again on one plan, clear_cache in between:    *)
(* calls is the log of the reports.                                        *)
(***************************************************************************)
\* One-node plans for every shape of node, and the plans that fail in
\* several layers, carry fallbacks or vary the settings.
RepeatPlans ==
    { Plan(PlanId, PlanName, af, "low", NoTrigger,
           << PlanNode(NodeA, shape.primitive_id, shape.inputs,
                       shape.fallback) >>, << >>) :
        shape \in NodeShapes, af \in BOOLEAN }
    \cup SettingsPlans \cup PolicyPlans \cup LayeredPlans

InitRepeat ==
    /\ source = FixtureSource
    /\ cache = EmptyCache
    /\ calls = << >>
    /\ plan \in RepeatPlans
    /\ report = NoReport
    /\ threads = NoThreads
    /\ rules = DefaultRules

\* Log entry of a validate call: the ids in the cache when it was made, the
\* report it left and the plan as it is after the call.
ValidateEntry(warm, r, p) ==
    [op |-> "validate", warm |-> warm, report |-> r, plan |-> p]

\* validator.validate(plan), logged; validate assigns to no field of the
\* plan.
ValidateLogged ==
    /\ Len(calls) < MaxCalls
    /\ report' = Validate(plan, cache, source).report
    /\ cache' = Validate(plan, cache, source).cache
    /\ calls' = Append(calls,
           ValidateEntry(DOMAIN cache, Validate(plan, cache, source).report,
                         plan))
    /\ UNCHANGED <<source, plan, threads, rules>>

NextRepeat == ValidateLogged \/ ClearCache

SpecRepeat == InitRepeat /\ [][NextRepeat]_vars

(***************************************************************************)
(* The policy engine on its own: rules are added and removed and the plan  *)
(* is evaluated, each call logged with what it returned.                   *)
(***************************************************************************)
MaxRuleCalls == 4

\* Rules a caller registers: a predicate that fails, one that raises, one
\* that holds, a second rule under the name of a built-in one, and a rule
\* whose severity is none of the levels of a violation.
CustomRules ==
    { CustomRule("audit", "warning", "false"),
      CustomRule("audit", "error", "raises"),
      CustomRule("Audit", "info", "true"),
      CustomRule("max_nodes", "error", "false"),
      CustomRule("audit", "critical", "false") }

RuleNames == {"max_nodes", "trigger_required", "audit", "missing"}

\* High-risk plans of one node, with and without trigger and fallback.
EnginePlans ==
    { Plan(PlanId, PlanName, TRUE, "high", trigger, << node >>, << >>) :
        trigger \in {NoTrigger, Trigger("manual", EmptyItems)},
        node \in {GraphNode(NodeA),
                  PlanNode(NodeA, NoneStr, EmptyInputs, SafeCode)} }

InitPolicy ==
    /\ source = FixtureSource
    /\ cache = EmptyCache
    /\ calls = << >>
    /\ plan \in EnginePlans
    /\ report = NoReport
    /\ threads = NoThreads
    /\ rules = DefaultRules

\* engine.add_rule(rule)
AddRule(rule) ==
    /\ Len(calls) < MaxRuleCalls
    /\ rules' = add_rule(rules, rule)
    /\ calls' = Append(calls, [op |-> "add_rule", rule |-> rule])
    /\ UNCHANGED <<source, cache, plan, report, threads>>

\* engine.remove_rule(name)
RemoveRule(name) ==
    /\ Len(calls) < MaxRuleCalls
    /\ rules' = remove_rule(rules, name).rules
    /\ calls' = Append(calls, [op |-> "remove_rule", name |-> name,
                               returned |-> remove_rule(rules, name).returned])
    /\ UNCHANGED <<source, cache, plan, report, threads>>

\* engine.evaluate(plan): the log keeps the list the loop ran over.
Evaluate ==
    /\ Len(calls) < MaxRuleCalls
    /\ calls' = Append(calls, [op |-> "evaluate", evaluated |-> rules,
                               violations |-> PolicyEvaluate(rules, plan)])
    /\ UNCHANGED <<source, cache, plan, report, threads, rules>>

NextPolicy ==
    \/ \E rule \in CustomRules : AddRule(rule)
    \/ \E name \in RuleNames : RemoveRule(name)
    \/ Evaluate

SpecPolicy == InitPolicy /\ [][NextPolicy]_vars

(***************************************************************************)
(* The drivers that compile a plan: the MCP tool, the CLI command and the  *)
(* bridge of the GUI backend.  Each run is logged with what the driver     *)
(* handed back: a workflow document (error "") or an error.                *)
(***************************************************************************)
Produced(workflow) == [error |-> "", workflow |-> workflow]

Failed(error) == [error |-> error, workflow |-> NoWorkflow]

\* MCPServer._compile_plan on a parsed plan, r being what validate left and
\* c what compile leaves; every exception ends in the except branch.
mcp_compile_plan(target, r, c) ==
    IF r.status = "raised" THEN Failed("Compilation failed")
    ELSE IF ~r.valid THEN Failed("Plan validation failed")
    ELSE IF target # "n8n" THEN Failed("Unsupported target")
    ELSE IF c.exc # "" THEN Failed("Compilation failed")
    ELSE Produced(c.workflow)

\* cli.compile on a parsed plan; an exception of validate or compile leaves
\* the command, and a target other than n8n is only noted.
cli_compile(target, r, c) ==
    IF r.status = "raised" THEN Failed(r.exc)
    ELSE IF ~r.valid THEN Failed("Plan validation failed")
    ELSE IF target # "n8n" THEN Failed("not yet implemented")
    ELSE IF c.exc # "" THEN Failed(c.exc)
    ELSE Produced(c.workflow)

\* MaicrosoftBridge.compile_plan on a parsed plan: compile, nothing else.
bridge_compile_plan(c) ==
    IF c.exc # "" THEN Failed(c.exc) ELSE Produced(c.workflow)

Targets == {"n8n", "python"}

\* Plans of one or two well-formed P001 steps with up to two edges, some of
\* them to a node that is not there; the plans under each trigger; a plan
\* on a primitive that is not in the index.
DriverPlans ==
    { GraphPlan(ids, es) :
        ids \in SeqsBetween({NodeA, NodeB}, 1, 2),
        es \in SeqsBetween({ Edge(NodeA, NodeB), Edge(NodeB, NodeA),
                             Edge(NodeA, NodeC) }, 0, 2) }
    \cup TriggerPlans
    \cup { Plan(PlanId, PlanName, FALSE, "low", NoTrigger,
                << PlanNode(NodeA, P999, EmptyInputs, NoFallback) >>, << >>) }

InitDrivers ==
    /\ source = FixtureSource
    /\ cache = EmptyCache
    /\ calls = << >>
    /\ plan \in DriverPlans
    /\ report = NoReport
    /\ threads = NoThreads
    /\ rules = DefaultRules

DriverEntry(op, target, d) ==
    [op |-> op, target |-> target, error |-> d.error, workflow |-> d.workflow]

\* The MCP tool compile_plan; the server keeps one validator.
McpCompilePlan(target, seed) ==
    /\ Len(calls) < MaxCompiles
    /\ cache' = Validate(plan, cache, source).cache
    /\ calls' = Append(calls,
           DriverEntry("mcp", target,
               mcp_compile_plan(target, Validate(plan, cache, source).report,
                                Compile(plan, seed))))
    /\ UNCHANGED <<source, plan, report, threads, rules>>

\* The command `compile`; it builds its own validator.
CliCompile(target, seed) ==
    /\ Len(calls) < MaxCompiles
    /\ calls' = Append(calls,
           DriverEntry("cli", target,
               cli_compile(target, Validate(plan, EmptyCache, source).report,
                           Compile(plan, seed))))
    /\ UNCHANGED <<source, cache, plan, report, threads, rules>>

\* bridge.compile_plan(plan_data)
BridgeCompilePlan(seed) ==
    /\ Len(calls) < MaxCompiles
    /\ calls' = Append(calls,
           DriverEntry("bridge", "n8n",
                       bridge_compile_plan(Compile(plan, seed))))
    /\ UNCHANGED <<source, cache, plan, report, threads, rules>>

NextDrivers ==
    \/ \E target \in Targets, seed \in Seeds : McpCompilePlan(target, seed)
    \/ \E target \in Targets, seed \in Seeds : CliCompile(target, seed)
    \/ \E seed \in Seeds : BridgeCompilePlan(seed)

SpecDrivers == InitDrivers /\ [][NextDrivers]_vars

(***************************************************************************)
(* The orchestrator (llm/orchestrator.py): search over the summaries of    *)
(* the index, and compose, the loop that asks the LLM for a plan.          *)
(***************************************************************************)
\* str.lower
Lower(s) == [i \in 1..Len(s) |-> LowerChar(s[i])]

\* s[i..j] is a maximal run without blanks
IsWord(s, i, j) ==
    /\ i <= j
    /\ \A k \in i..j : s[k] # " "
    /\ i = 1 \/ s[i - 1] = " "
    /\ j = Len(s) \/ s[j + 1] = " "

\* set(s.split())
Words(s) ==
    { SubSeq(s, ij[1], ij[2]) :
        ij \in { ij \in (1..Len(s)) \X (1..Len(s)) : IsWord(s, ij[1], ij[2]) } }

\* An entry of the index as registry.list returns it.
Summary(id, name, description, tags) ==
    [id |-> id, name |-> name, description |-> description, tags |-> tags]

\* The score search_primitives gives an entry of the index.
Score(p, query_lower, query_words) ==
    (IF Contains(Lower(p.name), query_lower) THEN 10 ELSE 0)
    + 3 * Cardinality({ w \in query_words : Contains(Lower(p.name), w) })
    + 2 * Cardinality({ w \in query_words :
                          Contains(Lower(p.description), w) })
    + 5 * Cardinality({ t \in 1..Len(p.tags) :
                          Contains(query_lower, Lower(p.tags[t])) })

Scored(p, score) ==
    [id |-> p.id, name |-> p.name, description |-> p.description,
     score |-> score]

\* Place of entry i after scored.sort(key=score, reverse=True): the sort is
\* stable, entries of equal score keep their order.
Rank(scored, i) ==
    1 + Cardinality({ j \in 1..Len(scored) :
                        \/ scored[j].score > scored[i].score
                        \/ scored[j].score = scored[i].score /\ j < i })

SortByScore(scored) ==
    [k \in 1..Len(scored) |->
        scored[CHOOSE i \in 1..Len(scored) : Rank(scored, i) = k]]

\* seq[:limit] for limit >= 0
Truncated(seq, limit) ==
    SubSeq(seq, 1, IF limit < Len(seq) THEN limit ELSE Len(seq))

\* LLMOrchestrator.search_primitives over the entries of the index
search_primitives(index, query, limit) ==
    Truncated(
        SortByScore(
            SelectSeq([i \in 1..Len(index) |->
                          Scored(index[i],
                                 Score(index[i], Lower(query),
                                       Words(Lower(query))))],
                      LAMBDA e : e.score > 0)),
        limit)

\* What the LLM does in one call: the call raises, or it returns a text
\* that is not YAML, or YAML of this plan.
Reply(kind, p) == [kind |-> kind, plan |-> p]

\* What _parse_and_validate leaves: the exception that leaves it ("" if
\* none), whether it returned a plan, its errors and the registry cache.
Parsed(exc, ok, errors, c) ==
    [exc |-> exc, ok |-> ok, errors |-> errors, cache |-> c]

\* f"[{v.level}:{v.code}] {v.message}"
ErrorLine(v) == [level |-> v.level, code |-> v.code, message |-> v.message]

\* LLMOrchestrator._parse_and_validate on the text of a reply, v being what
\* validate leaves for its plan.
parse_and_validate(reply, c, v) ==
    IF reply.kind = "unparsable"
    THEN Parsed("", FALSE, << "YAML parse error" >>, c)
    ELSE IF v.report.status = "raised"
    THEN Parsed(v.report.exc, FALSE, << >>, v.cache)
    ELSE IF v.report.valid THEN Parsed("", TRUE, << >>, v.cache)
    ELSE Parsed("", FALSE,
                [k \in 1..Len(v.report.violations) |->
                    ErrorLine(v.report.violations[k])],
                v.cache)

\* The conversation and the errors gathered when an attempt starts, with the
\* number of LLM calls made and the registry cache.
Attempting(messages, all_errors, llm_calls, c) ==
    [messages |-> messages, all_errors |-> all_errors,
     llm_calls |-> llm_calls, cache |-> c]

\* What compose leaves: a CompositionResult, or the exception that left it.
Composed(exc, success, validation_errors, st) ==
    [exc |-> exc, success |-> success,
     validation_errors |-> validation_errors, messages |-> st.messages,
     llm_calls |-> st.llm_calls, cache |-> st.cache]

Called(st) == [st EXCEPT !.llm_calls = @ + 1]

\* The two messages appended for a retry.
Feedback(reply, errors) ==
    << [role |-> "assistant", content |-> reply],
       [role |-> "user", content |-> errors] >>

RECURSIVE ComposeFrom(_, _, _, _, _), AfterParse(_, _, _, _, _, _)
\* The loop of compose from this attempt (counted from 0) on.
ComposeFrom(replies, src, max_retries, attempt, st) ==
    IF attempt > max_retries
    THEN Composed("", FALSE, st.all_errors, st)
    ELSE IF replies[attempt + 1].kind = "raises"
    THEN Composed("", FALSE, << "LLM call failed" >>, Called(st))
    ELSE AfterParse(replies, src, max_retries, attempt, Called(st),
             parse_and_validate(replies[attempt + 1], st.cache,
                 Validate(replies[attempt + 1].plan, st.cache, src)))

\* The rest of an attempt once _parse_and_validate left pv.
AfterParse(replies, src, max_retries, attempt, st, pv) ==
    IF pv.exc # ""
    THEN Composed(pv.exc, FALSE, << >>, [st EXCEPT !.cache = pv.cache])
    ELSE IF pv.ok
    THEN Composed("", TRUE, << >>, [st EXCEPT !.cache = pv.cache])
    ELSE ComposeFrom(replies, src, max_retries, attempt + 1,
             Attempting(
                 IF attempt < max_retries
                 THEN st.messages \o Feedback(replies[attempt + 1], pv.errors)
                 ELSE st.messages,
                 st.all_errors \o pv.errors, st.llm_calls, pv.cache))

FirstMessages ==
    << [role |-> "system", content |-> "prompt"],
       [role |-> "user", content |-> "description"] >>

\* LLMOrchestrator.compose, the LLM answering with the replies in turn
compose(replies, src, max_retries, c) ==
    ComposeFrom(replies, src, max_retries, 0,
                Attempting(FirstMessages, << >>, 0, c))

MaxLimit == 2
MaxRetries == 2

Http == <<"h", "t", "t", "p">>
Api == <<"a", "p", "i">>
Sql == <<"s", "q", "l">>
Get == <<"g", "e", "t">>
Map == <<"m", "a", "p">>
Blank == <<" ">>

\* The summaries of the index, in the order of the index file.
FixtureIndex ==
    << Summary(P001, Http, <<"c", "a", "l", "l">> \o Blank \o Api,
               << Http, Api >>),
       Summary(P004, <<"d", "b", "_">> \o Get, Sql \o Blank \o Get,
               << <<"S", "Q", "L">> >>),
       Summary(P005, Map, Map \o Blank \o <<"d", "a", "t", "a">>, << >>) >>

Queries ==
    { Http,
      Http \o <<"s">> \o Blank \o Get,
      <<"S", "q", "l">> \o Blank \o <<"A", "p", "i">>,
      <<"d", "a", "t", "a">> \o Blank \o Map,
      Get \o Blank \o Get,
      <<"a">>,
      <<"z", "z">> }

\* Plans the LLM answers with: one that validates, one on a primitive that
\* is not in the index, and one on a primitive whose file does not load.
ReplyPlans ==
    { Plan(PlanId, PlanName, FALSE, "low", NoTrigger,
           << PlanNode(NodeA, id, GoodInputs, NoFallback) >>, << >>) :
        id \in {P001, P999, P005} }

Replies ==
    { Reply("raises", RegistryPlan), Reply("unparsable", RegistryPlan) }
    \cup { Reply("plan", p) : p \in ReplyPlans }

InitOrchestrator ==
    /\ source = FixtureSource
    /\ cache = EmptyCache
    /\ calls = << >>
    /\ plan = RegistryPlan
    /\ report = NoReport
    /\ threads = NoThreads
    /\ rules = DefaultRules

\* orchestrator.search_primitives(query, limit); calls holds the last call.
SearchCall(query, limit) ==
    /\ calls' = << [op |-> "search", query |-> query, limit |-> limit,
                    results |-> search_primitives(FixtureIndex, query,
                                                  limit)] >>
    /\ UNCHANGED <<source, cache, plan, report, threads, rules>>

\* orchestrator.compose(description, max_retries=n)
ComposeCall(n, replies) ==
    /\ calls' = << [op |-> "compose", max_retries |-> n, replies |-> replies,
                    result |-> compose(replies, source, n, cache)] >>
    /\ cache' = compose(replies, source, n, cache).cache
    /\ UNCHANGED <<source, plan, report, threads, rules>>

NextOrchestrator ==
    \/ \E query \in Queries, limit \in 0..MaxLimit : SearchCall(query, limit)
    \/ \E n \in 0..MaxRetries :
          \E replies \in [1..(n + 1) -> Replies] : ComposeCall(n, replies)

SpecOrchestrator == InitOrchestrator /\ [][NextOrchestrator]_vars

(***************************************************************************)
(* Properties.                                                             *)
(***************************************************************************)
Returned == report.status = "returned"

\* Indices of the violations of the report carrying a code of the set.
ViolationsWithCode(codes) ==
    { i \in 1..Len(report.violations) : report.violations[i].code \in codes }

\* Some violation of the report has this code on this node.
Reported(code, node_id) ==
    \E i \in 1..Len(report.violations) :
        /\ report.violations[i].code = code
        /\ report.violations[i].node_id = node_id

\* The edges of the plan between declared node ids, as a relation.
DeclaredEdges(p) ==
    { <<p.edges[i].from_node, p.edges[i].to_node>> : i \in
        { j \in 1..Len(p.edges) :
            /\ p.edges[j].from_node \in NodeIdsOf(p)
            /\ p.edges[j].to_node \in NodeIdsOf(p) } }

RECURSIVE PathsUpTo(_, _)
\* Pairs joined by a path of 1..n edges of the relation R.
PathsUpTo(R, n) ==
    IF n <= 1 THEN R
    ELSE LET S == PathsUpTo(R, n - 1) IN
         S \cup { <<x[1], y[2]>> : <<x, y>> \in { z \in S \X R : z[1][2] = z[2][1] } }

\* The plan's graph over its declared node ids has a cycle: some node
\* reaches itself along one or more edges.
Cyclic(p) ==
    \E n \in NodeIdsOf(p) :
        <<n, n>> \in PathsUpTo(DeclaredEdges(p), Cardinality(NodeIdsOf(p)))

\* C1: a returned report has valid = true exactly when its violations list
\* holds no entry of level "error", whatever its warnings list holds.
C1_ValidIffNoErrorViolation ==
    Returned =>
        (report.valid <=>
            \A i \in 1..Len(report.violations) :
                report.violations[i].level # "error")

\* C1 witness: a valid report that carries warnings.
C1_Witness ==
    Returned /\ report.valid /\ Len(report.warnings) > 0

\* C2: a plan reported valid has a non-empty node list, pairwise distinct
\* node ids, edges whose endpoints are declared node ids, and no cycle.
C2_ValidImpliesStructure ==
    (Returned /\ report.valid) =>
        /\ Len(plan.nodes) > 0
        /\ \A i, j \in 1..Len(plan.nodes) :
              i # j => plan.nodes[i].id # plan.nodes[j].id
        /\ \A i \in 1..Len(plan.edges) :
              /\ plan.edges[i].from_node \in NodeIdsOf(plan)
              /\ plan.edges[i].to_node \in NodeIdsOf(plan)
        /\ ~Cyclic(plan)

\* C2 witness: a plan of three nodes and three edges reported valid.
C2_Witness ==
    /\ Returned /\ report.valid
    /\ Len(plan.nodes) = 3
    /\ Len(plan.edges) = 3

\* C3: the report carries exactly one CIRCULAR_DEPENDENCY error when the
\* plan's graph over its declared node ids has a cycle, and none otherwise.
C3_OneCircularDependencyIffCyclic ==
    Returned =>
        Cardinality(ViolationsWithCode({"CIRCULAR_DEPENDENCY"}))
            = (IF Cyclic(plan) THEN 1 ELSE 0)

\* C3 witness: a reported cycle through three nodes that the search does
\* not enter at its first node: the first listed node has no edge.
C3_Witness ==
    /\ Returned
    /\ Cardinality(ViolationsWithCode({"CIRCULAR_DEPENDENCY"})) = 1
    /\ Len(plan.nodes) = 3
    /\ Len(plan.edges) = 2
    /\ \A i \in 1..Len(plan.edges) :
          /\ plan.edges[i].from_node # plan.nodes[1].id
          /\ plan.edges[i].to_node # plan.nodes[1].id
          /\ plan.edges[i].from_node # plan.edges[i].to_node

\* C4 (as claimed): every rule of the policy engine whose predicate is false
\* on the plan shows as a POLICY_<NAME> entry in the report's warnings, and
\* no policy entry is placed in the violations.
C4_PolicyRulesFiledAsWarnings ==
    Returned =>
        LET fired == PolicyEvaluate(DefaultRules, plan) IN
        /\ \A i \in 1..Len(fired) :
              \E j \in 1..Len(report.warnings) :
                  report.warnings[j].code = fired[i].code
        /\ \A i \in 1..Len(fired) :
              \A j \in 1..Len(report.violations) :
                  report.violations[j].code # fired[i].code

\* C5 (as claimed): with allow_fallback = false every node that carries a
\* fallback gets FALLBACK_NOT_ALLOWED, so the plan is not valid.
C5_FallbackAlwaysGated ==
    (Returned /\ ~plan.settings.allow_fallback) =>
        \A i \in 1..Len(plan.nodes) :
            plan.nodes[i].fallback # NoFallback =>
                /\ Reported("FALLBACK_NOT_ALLOWED", plan.nodes[i].id)
                /\ ~report.valid

Layer2Codes ==
    {"NO_PRIMITIVE_OR_FALLBACK", "FALLBACK_NOT_ALLOWED", "PRIMITIVE_NOT_FOUND",
     "PRIMITIVE_DEPRECATED", "PRIMITIVE_DRAFT"}

\* The Layer-2 code the priority list gives a node, "" for none, read off
\* the plan and the source tree.
ExpectedLayer2Code(node, settings, src) ==
    IF node.primitive_id = NoneStr /\ node.fallback = NoFallback
    THEN "NO_PRIMITIVE_OR_FALLBACK"
    ELSE IF node.primitive_id = NoneStr /\ ~settings.allow_fallback
    THEN "FALLBACK_NOT_ALLOWED"
    ELSE IF node.primitive_id = NoneStr THEN ""
    ELSE IF node.primitive_id \notin DOMAIN src
            \/ src[node.primitive_id] \notin LoadableStates
    THEN "PRIMITIVE_NOT_FOUND"
    ELSE IF src[node.primitive_id] = "deprecated" THEN "PRIMITIVE_DEPRECATED"
    ELSE IF src[node.primitive_id] = "draft" THEN "PRIMITIVE_DRAFT"
    ELSE ""

RECURSIVE ExpectedLayer2(_, _, _)
\* The expected <<code, node id>> pairs of Layer 2, nodes i.. in plan order.
ExpectedLayer2(p, src, i) ==
    IF i > Len(p.nodes) THEN << >>
    ELSE LET code == ExpectedLayer2Code(p.nodes[i], p.settings, src) IN
         (IF code = "" THEN << >> ELSE << <<code, p.nodes[i].id>> >>)
         \o ExpectedLayer2(p, src, i + 1)

RECURSIVE ReportedLayer2(_)
\* The <<code, node id>> pairs of the Layer-2 entries of a violations list.
ReportedLayer2(violations) ==
    IF Len(violations) = 0 THEN << >>
    ELSE (IF Head(violations).code \in Layer2Codes
          THEN << <<Head(violations).code, Head(violations).node_id>> >>
          ELSE << >>) \o ReportedLayer2(Tail(violations))

\* C6: Layer 2 gives every node at most one error, the first that applies
\* of NO_PRIMITIVE_OR_FALLBACK, FALLBACK_NOT_ALLOWED (fallback only and
\* allow_fallback false), PRIMITIVE_NOT_FOUND, PRIMITIVE_DEPRECATED,
\* PRIMITIVE_DRAFT, and none otherwise.
C6_Layer2FirstMatch ==
    Returned =>
        ReportedLayer2(report.violations) = ExpectedLayer2(plan, source, 1)

\* C6 witness: a report with a draft primitive on one node and a fallback
\* that is not allowed on another.
C6_Witness ==
    /\ Returned
    /\ ViolationsWithCode({"PRIMITIVE_DRAFT"}) # {}
    /\ ViolationsWithCode({"FALLBACK_NOT_ALLOWED"}) # {}

\* C7 (as claimed): a node reported PRIMITIVE_NOT_FOUND, PRIMITIVE_DEPRECATED
\* or PRIMITIVE_DRAFT gets no INTERFACE_VIOLATION in the same report, and a
\* node without primitive_id gets none.
C7_InterfaceOnlyAfterLayer2Passed ==
    Returned =>
        \A i \in 1..Len(plan.nodes) :
            (\/ plan.nodes[i].primitive_id = NoneStr
             \/ Reported("PRIMITIVE_NOT_FOUND", plan.nodes[i].id)
             \/ Reported("PRIMITIVE_DEPRECATED", plan.nodes[i].id)
             \/ Reported("PRIMITIVE_DRAFT", plan.nodes[i].id))
                => ~Reported("INTERFACE_VIOLATION", plan.nodes[i].id)

\* C7 (amended): a node reported PRIMITIVE_NOT_FOUND gets no
\* INTERFACE_VIOLATION in the same report, whatever its inputs, and a node
\* without primitive_id gets none; every INTERFACE_VIOLATION is on a node
\* whose primitive_id the registry can load.
C7_InterfaceOnlyForLoadablePrimitive ==
    Returned =>
        /\ \A i \in 1..Len(plan.nodes) :
              (\/ plan.nodes[i].primitive_id = NoneStr
               \/ Reported("PRIMITIVE_NOT_FOUND", plan.nodes[i].id))
                  => ~Reported("INTERFACE_VIOLATION", plan.nodes[i].id)
        /\ \A v \in ViolationsWithCode({"INTERFACE_VIOLATION"}) :
              \E i \in 1..Len(plan.nodes) :
                  /\ plan.nodes[i].id = report.violations[v].node_id
                  /\ plan.nodes[i].primitive_id \in DOMAIN source
                  /\ source[plan.nodes[i].primitive_id] \in LoadableStates

\* C7 witness: a report where a node with a missing required input is
\* reported PRIMITIVE_NOT_FOUND and another node has an INTERFACE_VIOLATION.
C7_Witness ==
    /\ Returned
    /\ \E i \in 1..Len(plan.nodes) :
          /\ Reported("PRIMITIVE_NOT_FOUND", plan.nodes[i].id)
          /\ plan.nodes[i].inputs = EmptyInputs
    /\ ViolationsWithCode({"INTERFACE_VIOLATION"}) # {}

\* C8 (as claimed): validate always returns a report, and every node whose
\* primitive cannot be loaded is reported PRIMITIVE_NOT_FOUND.
C8_ValidateNeverRaises ==
    report.status # "none" =>
        /\ Returned
        /\ \A i \in 1..Len(plan.nodes) :
              (/\ plan.nodes[i].primitive_id # NoneStr
               /\ source[plan.nodes[i].primitive_id] \notin LoadableStates)
                  => Reported("PRIMITIVE_NOT_FOUND", plan.nodes[i].id)

\* C9 (as claimed): exists never raises, and returns true exactly when a
\* get of the same id would return a primitive.
C9_ExistsTotal ==
    \A i \in 1..Len(calls) :
        calls[i].op = "exists" =>
            /\ calls[i].exc = ""
            /\ calls[i].found <=>
                  (load_primitive(source, calls[i].id).exc = "")

\* The successful lookups of id that precede call i with no clear_cache in
\* between (exists looks up through get).
WarmSince(id, i) ==
    { j \in 1..(i - 1) :
        /\ calls[j].op \in {"get", "exists"}
        /\ calls[j].id = id
        /\ calls[j].exc = "" /\ calls[j].found
        /\ \A k \in (j + 1)..(i - 1) : calls[k].op # "clear_cache" }

\* C10: a get(id) with use_cache goes to the loader exactly when no lookup
\* of id has succeeded since the last clear_cache; otherwise it returns the
\* value of the latest such lookup without loading.
C10_GetLoadsOncePerClear ==
    \A i \in 1..Len(calls) :
        (calls[i].op = "get" /\ calls[i].use_cache) =>
            LET warm == WarmSince(calls[i].id, i) IN
            /\ calls[i].loaded <=> (warm = {})
            /\ warm # {} =>
                  /\ calls[i].exc = ""
                  /\ \A j \in warm : calls[i].value = calls[j].value

\* C10 witness: get loads, a second get does not, and after clear_cache the
\* next get loads again.
C10_Witness ==
    /\ Len(calls) = 4
    /\ \A i \in {1, 2, 4} :
          calls[i].op = "get" /\ calls[i].id = P001 /\ calls[i].use_cache
                              /\ calls[i].exc = ""
    /\ calls[1].loaded /\ ~calls[2].loaded
    /\ calls[1].value = calls[2].value
    /\ calls[3].op = "clear_cache"
    /\ calls[4].loaded

\* C11: with several callers inside get (default use_cache) and no
\* clear_cache, under every interleaving a get that is over returned the
\* primitive the loader gives for its id (or raised what the loader raises),
\* the cache maps every id to the primitive loaded for that id, and a get
\* entered while its id was in the cache neither goes to the loader nor
\* holds a loaded primitive.
C11_ConcurrentGetSafe ==
    /\ \A i \in 1..Len(calls) :
          /\ calls[i].exc = load_primitive(source, calls[i].id).exc
          /\ calls[i].value = load_primitive(source, calls[i].id).value
    /\ \A id \in DOMAIN cache :
          /\ cache[id].id = id
          /\ cache[id] = load_primitive(source, id).value
    /\ \A t \in DOMAIN threads :
          threads[t].warm =>
              /\ threads[t].pc \notin {"load", "store"}
              /\ ~threads[t].loaded

\* C11 witness: two callers missed the same id together and both loaded it,
\* the cache holds two ids, and a get entered afterwards returned the cached
\* primitive without loading.
C11_Witness ==
    /\ Cardinality(DOMAIN cache) = 2
    /\ \E i, j \in 1..Len(calls) :
          /\ i < j
          /\ calls[i].id = calls[j].id
          /\ calls[i].loaded /\ calls[j].loaded
          /\ calls[i].exc = "" /\ calls[j].exc = ""
    /\ \E t \in DOMAIN threads :
          /\ threads[t].pc = "done" /\ threads[t].warm
          /\ threads[t].exc = "" /\ threads[t].value = cache[threads[t].id]

\* The value kind the interface vocabulary gives a runtime value.
KindOf(value) ==
    CASE value.kind = "str" -> "string"
      [] value.kind \in {"int", "float"} -> "number"
      [] value.kind = "bool" -> "boolean"
      [] value.kind = "dict" -> "object"
      [] value.kind = "list" -> "array"
      [] OTHER -> "null"

\* The value is a string whose first two characters are "{{".
BeginsWithBraces(value) ==
    /\ value.kind = "str"
    /\ Len(value.text) >= 2
    /\ value.text[1] = "{" /\ value.text[2] = "{"

\* The validate_inputs calls of the log that returned.
InputsCalls ==
    { i \in 1..Len(calls) : calls[i].op = "validate_inputs" /\ calls[i].exc = "" }

\* The interface.inputs the call at index i was checked against.
DeclaredInputs(i) == load_primitive(source, calls[i].id).value.inputs

\* Indices of the errors of call i that name the field.
ErrorsNaming(i, name) ==
    { k \in 1..Len(calls[i].errors) : calls[i].errors[k].name = name }

\* C12 (as claimed): every present field declared string, number, boolean,
\* object or array whose value is of another kind and does not begin with
\* "{{" makes validate_inputs return ok = false with an error "Input NAME
\* must be T, got ..." for it; a value of the declared kind gives the field
\* no such error.
C12_TypeMismatchReported ==
    \A i \in InputsCalls :
        \A f \in 1..Len(DeclaredInputs(i)) :
            LET inp == DeclaredInputs(i)[f] IN
            (/\ inp.name \in DOMAIN calls[i].inputs
             /\ inp.type \in {"string", "number", "boolean", "object", "array"})
            =>
            LET value == calls[i].inputs[inp.name] IN
            /\ (KindOf(value) # inp.type /\ ~BeginsWithBraces(value)) =>
                  /\ ~calls[i].ok
                  /\ \E k \in ErrorsNaming(i, inp.name) :
                        /\ calls[i].errors[k].text = "must be"
                        /\ calls[i].errors[k].type = inp.type
            /\ KindOf(value) = inp.type =>
                  \A k \in ErrorsNaming(i, inp.name) :
                      calls[i].errors[k].text # "must be"

\* C13 (as claimed): a present value beginning with "{{" gives its field no
\* error, whatever the declared type, and an enum field with any other
\* value that is not among enum_values gets an error.
C13_ExpressionEscapesEnumRejects ==
    \A i \in InputsCalls :
        \A f \in 1..Len(DeclaredInputs(i)) :
            LET inp == DeclaredInputs(i)[f] IN
            inp.name \in DOMAIN calls[i].inputs =>
            LET value == calls[i].inputs[inp.name] IN
            /\ BeginsWithBraces(value) => ErrorsNaming(i, inp.name) = {}
            /\ (/\ inp.type = "enum"
                /\ ~BeginsWithBraces(value)
                /\ ~(value.kind = "str"
                     /\ value.text \in SeqToSet(inp.enum_values)))
               => \E k \in ErrorsNaming(i, inp.name) :
                      calls[i].errors[k].text = "must be one of"

\* C13 (amended): a present value beginning with "{{" gives its field no
\* error, whatever the declared type; an enum field that declares a
\* non-empty enum_values gets an error for any other value that is not among
\* them; an enum field that declares no enum_values accepts every value.
C13_ExpressionEscapesDeclaredEnumRejects ==
    \A i \in InputsCalls :
        \A f \in 1..Len(DeclaredInputs(i)) :
            LET inp == DeclaredInputs(i)[f] IN
            inp.name \in DOMAIN calls[i].inputs =>
            LET value == calls[i].inputs[inp.name] IN
            /\ BeginsWithBraces(value) => ErrorsNaming(i, inp.name) = {}
            /\ (/\ inp.type = "enum"
                /\ Len(inp.enum_values) > 0
                /\ ~BeginsWithBraces(value)
                /\ ~(value.kind = "str"
                     /\ value.text \in SeqToSet(inp.enum_values)))
               => \E k \in ErrorsNaming(i, inp.name) :
                      calls[i].errors[k].text = "must be one of"
            /\ (inp.type = "enum" /\ Len(inp.enum_values) = 0)
               => ErrorsNaming(i, inp.name) = {}

\* C13 witness: a call where a number field holds a "{{" expression and the
\* enum field holds a string outside its values: the only error is the one
\* of the enum field.
C13_Witness ==
    \E i \in InputsCalls :
        /\ calls[i].id = A001
        /\ DOMAIN calls[i].inputs = {"n", "e"}
        /\ BeginsWithBraces(calls[i].inputs["n"])
        /\ calls[i].inputs["e"] = StrValue(OneBrace)
        /\ ~calls[i].ok
        /\ Len(calls[i].errors) = 1
        /\ calls[i].errors[1].text = "must be one of"
        /\ calls[i].errors[1].name = "e"

\* C14: validate_inputs gives every declared required field whose name is
\* not a key of inputs exactly one error, "Missing required input: NAME",
\* with or without a declared default; a field that is not required or whose
\* name is a key gets no such error; ok is true exactly when the error list
\* is empty.
C14_MissingRequiredReported ==
    \A i \in InputsCalls :
        /\ \A f \in 1..Len(DeclaredInputs(i)) :
              LET inp == DeclaredInputs(i)[f] IN
              IF inp.required /\ inp.name \notin DOMAIN calls[i].inputs
              THEN /\ Cardinality(ErrorsNaming(i, inp.name)) = 1
                   /\ \A k \in ErrorsNaming(i, inp.name) :
                         calls[i].errors[k].text = "Missing required input"
              ELSE \A k \in ErrorsNaming(i, inp.name) :
                       calls[i].errors[k].text # "Missing required input"
        /\ calls[i].ok <=> (Len(calls[i].errors) = 0)

\* C14 witness: a call that leaves out the required field with a default
\* and gives the other required field a value of the wrong type: one
\* missing-input error and one type error.
C14_Witness ==
    \E i \in InputsCalls :
        /\ calls[i].id = A002
        /\ DOMAIN calls[i].inputs = {"r", "q"}
        /\ ~calls[i].ok
        /\ Len(calls[i].errors) = 2
        /\ calls[i].errors[1].text = "must be" /\ calls[i].errors[1].name = "r"
        /\ calls[i].errors[2].text = "Missing required input"
        /\ calls[i].errors[2].name = "d"


(***************************************************************************)
(* Properties of the compiler, over the log of compile runs on the plan.   *)
(***************************************************************************)
CompileCalls == { i \in 1..Len(calls) : calls[i].op = "compile" }

\* The compile runs that returned a document.
CompileReturns == { i \in CompileCalls : calls[i].exc = "" }

\* The validator accepts the plan.
PlanValidated ==
    LET r == Validate(plan, EmptyCache, source).report IN
    r.status = "returned" /\ r.valid

TriggerTypes ==
    { "n8n-nodes-base.manualTrigger", "n8n-nodes-base.webhook",
      "n8n-nodes-base.scheduleTrigger" }

\* C15: when compile returns a document for the plan, its nodes are the
\* trigger node first, then one node per plan node in plan order, the node
\* after the trigger at offset k carrying the display name of the k-th plan
\* node and the k-th position of the layout; there is no further node.
C15_OneNodePerPlanNode ==
    \A i \in CompileReturns :
        LET nodes == calls[i].workflow.nodes IN
        /\ Len(nodes) = Len(plan.nodes) + 1
        /\ nodes[1].name = TriggerName
        /\ nodes[1].type \in TriggerTypes
        /\ nodes[1].position = << 250, 300 >>
        /\ \A k \in 1..Len(plan.nodes) :
              /\ nodes[k + 1].name = SanitizeName(plan.nodes[k].id)
              /\ nodes[k + 1].type \notin TriggerTypes
              /\ nodes[k + 1].position[1] = 250 + 250 * k

\* C15 witness: a returned document for a plan whose two nodes share one id;
\* both are emitted.
C15_Witness ==
    \E i \in CompileReturns :
        /\ Len(plan.nodes) = 2
        /\ plan.nodes[1].id = plan.nodes[2].id
        /\ Len(calls[i].workflow.nodes) = 3
        /\ calls[i].workflow.nodes[2].name = calls[i].workflow.nodes[3].name

\* Display names under which the plan node with this id is emitted.
EmittedNames(i, id) ==
    { calls[i].workflow.nodes[k + 1].name :
        k \in { k \in 1..Len(plan.nodes) : plan.nodes[k].id = id } }

\* Targets the edges of the plan ask for under the source name s, in edge
\* order; a validated plan has one node per id, so its name is the one
\* emitted name of the id.
EdgeTargets(i, s) ==
    LET name(id) == CHOOSE n \in EmittedNames(i, id) : TRUE
        from_s == SelectSeq(plan.edges,
                            LAMBDA e : name(e.from_node) = s) IN
    [j \in 1..Len(from_s) |-> Target(name(from_s[j].to_node))]

IsSuffix(t, s) ==
    /\ Len(t) <= Len(s)
    /\ SubSeq(s, Len(s) - Len(t) + 1, Len(s)) = t

\* C16: in the document compile returns for a validated plan, every edge
\* (u, v) has an entry {node: name(v), type: "main", index: 0} in
\* connections[name(u)].main[0], one per occurrence and in edge order: the
\* list under each source name ends with the targets of the edges leaving
\* the nodes of that name, in the order of the edges.
C16_EveryEdgeConnected ==
    PlanValidated =>
        \A i \in CompileReturns :
            \A j \in 1..Len(plan.edges) :
                LET s == CHOOSE n \in EmittedNames(i, plan.edges[j].from_node) :
                             TRUE IN
                /\ s \in DOMAIN calls[i].workflow.connections
                /\ IsSuffix(EdgeTargets(i, s),
                            calls[i].workflow.connections[s].main[1])

\* C17: in the document compile returns for a validated plan, every plan
\* node that no edge points to is a target in the list of the connections
\* under the name of the trigger node, the first node of the document.
C17_RootsFollowTrigger ==
    PlanValidated =>
        \A i \in CompileReturns :
            \A k \in 1..Len(plan.nodes) :
                (\A j \in 1..Len(plan.edges) :
                    plan.edges[j].to_node # plan.nodes[k].id)
                => LET w == calls[i].workflow IN
                   /\ w.nodes[1].name \in DOMAIN w.connections
                   /\ \E m \in 1..Len(w.connections[w.nodes[1].name].main[1]) :
                         w.connections[w.nodes[1].name].main[1][m]
                             = Target(w.nodes[k + 1].name)

\* C17 witness: a validated plan of three nodes with one edge; the two nodes
\* the edge does not point to follow the trigger, the third does not.
C17_Witness ==
    /\ PlanValidated
    /\ Len(plan.nodes) = 3 /\ Len(plan.edges) = 1
    /\ plan.edges[1] = Edge(NodeB, NodeC)
    /\ \E i \in CompileReturns :
          calls[i].workflow.connections[TriggerName].main[1]
              = << Target(SanitizeName(NodeA)), Target(SanitizeName(NodeB)) >>


\* The document without each node's id and without its versionId.
StripIds(w) ==
    [w EXCEPT !.versionId = Uuid(0, 0),
              !.nodes = [k \in 1..Len(w.nodes) |->
                            [w.nodes[k] EXCEPT !.id = Uuid(0, 0)]]]

RECURSIVE TextsOf(_)
\* The strings held by a value: its text, or the strings of its items.
TextsOf(v) ==
    IF v.kind = "str" THEN { v.text }
    ELSE IF "items" \in DOMAIN v
    THEN UNION { TextsOf(v.items[k]) : k \in DOMAIN v.items }
    ELSE {}

\* The strings held by the parameters of an emitted node.
ParameterTexts(node) ==
    UNION { TextsOf(node.parameters[k]) : k \in DOMAIN node.parameters }

\* Ids named by the placeholders of a text.
PlaceholderIds(text) ==
    { RefNodeId(RefOf(text, m)) : m \in RefMatchStarts(text) }

PlanNodeIds == { plan.nodes[k].id : k \in 1..Len(plan.nodes) }

\* C19: in the document compile returns, for every string input of a plan
\* node that holds a placeholder naming a plan node N, the parameters of the
\* emitted node hold an expression $node["NAME"] where NAME is a name under
\* which N is emitted, and no parameter of any emitted node holds a
\* placeholder.
C19_PlaceholdersNameEmittedNode ==
    \A i \in CompileReturns :
        LET nodes == calls[i].workflow.nodes IN
        /\ \A k \in 1..Len(plan.nodes) :
              \A key \in DOMAIN plan.nodes[k].inputs :
                  LET v == plan.nodes[k].inputs[key] IN
                  v.kind = "str" =>
                      \A id \in PlaceholderIds(v.text) \cap PlanNodeIds :
                          \E text \in ParameterTexts(nodes[k + 1]) :
                              \E name \in EmittedNames(i, id) :
                                  Contains(text, ExprOpen \o name \o ExprMid)
        /\ \A k \in 1..Len(nodes) :
              \A text \in ParameterTexts(nodes[k]) :
                  RefMatchStarts(text) = {}


\* Plan nodes that have neither primitive_id nor fallback.
Unsupported ==
    { k \in 1..Len(plan.nodes) :
        plan.nodes[k].primitive_id = NoneStr
        /\ plan.nodes[k].fallback = NoFallback }

\* The message of the error compile raises for such a node.
UnsupportedMessage(k) ==
    << "Node " >> \o plan.nodes[k].id \o << " has no primitive_id or fallback" >>

\* C20: every compile run on a plan with a node that has neither
\* primitive_id nor fallback raises the error for such a node, its message
\* naming the id of the node, and returns no document; compile raises that
\* error for no other plan.
C20_UnsupportedNodeRejected ==
    \A i \in CompileCalls :
        /\ Unsupported # {} =>
              /\ calls[i].exc = "ValueError"
              /\ \E k \in Unsupported : calls[i].message = UnsupportedMessage(k)
              /\ calls[i].workflow = NoWorkflow
        /\ calls[i].exc = "ValueError" => Unsupported # {}


(***************************************************************************)
(* Properties of the policy layer and of the order of the report.          *)
(***************************************************************************)
\* Indices of the warnings of the report carrying the code.
WarningsWithCode(code) ==
    { i \in 1..Len(report.warnings) : report.warnings[i].code = code }

\* The fallback code of the node holds "eval(" or "exec(".
UnsafeNode(node) ==
    /\ node.fallback # NoFallback
    /\ (Contains(node.fallback.code, EvalCall)
        \/ Contains(node.fallback.code, ExecCall))

\* C24: the warnings of a report are one FALLBACK_USED exactly when some
\* node carries a fallback, for every node id as many UNSAFE_CODE warnings on
\* that id as there are nodes of the id whose fallback code holds "eval(" or
\* "exec(", one HIGH_RISK_PLAN exactly when risk_level is high, and nothing
\* else; valid is decided by the violations alone, and a plan whose only
\* node has a fallback and no primitive_id is valid under allow_fallback
\* when its metadata is filled in.
C24_PolicyWarnings ==
    Returned =>
        /\ Cardinality(WarningsWithCode("FALLBACK_USED"))
              = (IF \E k \in 1..Len(plan.nodes) :
                        plan.nodes[k].fallback # NoFallback
                 THEN 1 ELSE 0)
        /\ \A id \in NodeIdsOf(plan) \cup {NoneStr} :
              Cardinality({ i \in WarningsWithCode("UNSAFE_CODE") :
                              report.warnings[i].node_id = id })
                  = Cardinality({ k \in 1..Len(plan.nodes) :
                                    /\ plan.nodes[k].id = id
                                    /\ UnsafeNode(plan.nodes[k]) })
        /\ Cardinality(WarningsWithCode("HIGH_RISK_PLAN"))
              = (IF plan.settings.risk_level = "high" THEN 1 ELSE 0)
        /\ \A i \in 1..Len(report.warnings) :
              /\ report.warnings[i].code
                    \in {"FALLBACK_USED", "UNSAFE_CODE", "HIGH_RISK_PLAN"}
              /\ report.warnings[i].code = "UNSAFE_CODE"
                    => report.warnings[i].node_id \in NodeIdsOf(plan)
        /\ report.valid <=> (Len(report.violations) = 0)
        /\ (/\ Len(plan.nodes) = 1
            /\ plan.nodes[1].fallback # NoFallback
            /\ plan.nodes[1].primitive_id = NoneStr
            /\ plan.settings.allow_fallback
            /\ Len(plan.edges) = 0
            /\ Len(plan.metadata.id) > 0 /\ Len(plan.metadata.name) > 0)
           => report.valid /\ WarningsWithCode("FALLBACK_USED") # {}

\* C24 witness: a valid high-risk plan of two fallback nodes, the first with
\* "exec(" in its code and the second with a call name only: the warnings
\* are FALLBACK_USED, UNSAFE_CODE on the first node and HIGH_RISK_PLAN.
C24_Witness ==
    /\ Returned /\ report.valid
    /\ Len(plan.nodes) = 2
    /\ plan.nodes[1].fallback = ExecCode
    /\ plan.nodes[2].fallback = NearCode
    /\ Len(report.warnings) = 3
    /\ report.warnings[1].code = "FALLBACK_USED"
    /\ report.warnings[2].code = "UNSAFE_CODE"
    /\ report.warnings[2].node_id = plan.nodes[1].id
    /\ report.warnings[3].code = "HIGH_RISK_PLAN"


\* The layer that files a violation code.
LayerOf(code) ==
    CASE code \in {"MISSING_PLAN_ID", "MISSING_PLAN_NAME", "EMPTY_PLAN",
                   "DUPLICATE_NODE_ID"} -> 1
      [] code \in Layer2Codes -> 2
      [] code = "INTERFACE_VIOLATION" -> 3
      [] code \in {"INVALID_EDGE_SOURCE", "INVALID_EDGE_TARGET",
                   "CIRCULAR_DEPENDENCY"} -> 4
      [] OTHER -> 5

\* Positions of the plan nodes carrying the id.
PositionsOf(id) == { k \in 1..Len(plan.nodes) : plan.nodes[k].id = id }

RECURSIVE EdgeCodesFrom(_)
\* The endpoint errors the edges from the j-th on call for, edge by edge,
\* source before target.
EdgeCodesFrom(j) ==
    IF j > Len(plan.edges) THEN << >>
    ELSE (IF plan.edges[j].from_node \in NodeIdsOf(plan) THEN << >>
          ELSE << "INVALID_EDGE_SOURCE" >>)
         \o (IF plan.edges[j].to_node \in NodeIdsOf(plan) THEN << >>
             ELSE << "INVALID_EDGE_TARGET" >>)
         \o EdgeCodesFrom(j + 1)

\* The codes of the Layer-4 entries of the report, in report order.
Layer4Codes ==
    LET v == SelectSeq(report.violations, LAMBDA x : LayerOf(x.code) = 4) IN
    [i \in 1..Len(v) |-> v[i].code]

\* C25: in a report the violations come in layer order (syntax, registry,
\* interface, dependency); two entries of Layer 2, or two of Layer 3, come
\* in the order of the plan nodes they name; the Layer-4 entries are the
\* endpoint errors in edge order, followed by CIRCULAR_DEPENDENCY if it is
\* there.
C25_ViolationsInLayerOrder ==
    Returned =>
        /\ \A i \in 1..Len(report.violations) :
              \A j \in (i + 1)..Len(report.violations) :
                  LET a == report.violations[i]
                      b == report.violations[j] IN
                  /\ LayerOf(a.code) <= LayerOf(b.code)
                  /\ LayerOf(b.code) <= 4
                  /\ (LayerOf(a.code) = LayerOf(b.code)
                      /\ LayerOf(a.code) \in {2, 3})
                     => \E k \in PositionsOf(a.node_id) :
                            \E m \in PositionsOf(b.node_id) : k <= m
        /\ \/ Layer4Codes = EdgeCodesFrom(1)
           \/ Layer4Codes = EdgeCodesFrom(1) \o << "CIRCULAR_DEPENDENCY" >>

\* C25 witness: a report with entries of all four layers, the Layer-2 entry
\* on the first node and the Layer-3 entry on the second, and both kinds of
\* Layer-4 entries.
C25_Witness ==
    /\ Returned
    /\ \E i \in 1..Len(report.violations) :
          LayerOf(report.violations[i].code) = 1
    /\ \E i \in 1..Len(report.violations) :
          /\ LayerOf(report.violations[i].code) = 2
          /\ report.violations[i].node_id = NodeA
    /\ \E i \in 1..Len(report.violations) :
          /\ LayerOf(report.violations[i].code) = 3
          /\ report.violations[i].node_id = NodeB
    /\ Len(Layer4Codes) >= 2
    /\ Layer4Codes[Len(Layer4Codes)] = "CIRCULAR_DEPENDENCY"


ValidateCalls == { i \in 1..Len(calls) : calls[i].op = "validate" }

\* C26: all validate calls on a plan leave the same outcome, whatever ids
\* the registry cache held when each was made, and the plan after every
\* call is the plan given.
C26_ValidatePure ==
    \A i \in ValidateCalls :
        /\ calls[i].plan = plan
        /\ \A j \in ValidateCalls : calls[i].report = calls[j].report

\* C26 witness: three calls that found a cold cache, a warm cache and a
\* cache cleared after it was warm left one report, which holds an
\* interface violation.
C26_Witness ==
    /\ Len(calls) >= 3
    /\ calls[1].warm = {} /\ calls[2].warm # {} /\ calls[3].warm = {}
    /\ calls[1].report.status = "returned"
    /\ \E v \in 1..Len(calls[1].report.violations) :
          calls[1].report.violations[v].code = "INTERFACE_VIOLATION"
    /\ calls[1].report = calls[2].report /\ calls[2].report = calls[3].report

(***************************************************************************)
(* Properties of failed lookups.                                           *)
(***************************************************************************)
\* The call the step just logged.
LoggedCall == calls'[Len(calls')]

FailedGetStep ==
    /\ Len(calls') = Len(calls) + 1
    /\ LoggedCall.op = "get"
    /\ LoggedCall.exc # ""

\* C29: a get that raises (id absent from the index, file missing, prefix
\* outside P/A/M/O, file that does not parse), with use_cache true or false,
\* leaves the cache exactly as it was: a failure is never cached.
C29_FailedGetKeepsCache ==
    [][FailedGetStep => cache' = cache]_vars

FailedGets(use_cache) ==
    {i \in 1..Len(calls) :
        /\ calls[i].op = "get"
        /\ calls[i].exc # ""
        /\ calls[i].use_cache = use_cache}

\* A primitive was cached, then gets failed with and without the cache, for a
\* missing entry and for an invalid one, and the cache still holds just the
\* primitive.
C29_Witness ==
    /\ Len(calls) >= 3
    /\ calls[1].op = "get" /\ calls[1].exc = "" /\ calls[1].id = P001
    /\ \E i \in FailedGets(TRUE), j \in FailedGets(FALSE) :
          /\ calls[i].exc = "FileNotFoundError"
          /\ calls[j].exc = "ValueError"
    /\ DOMAIN cache = {P001}

(***************************************************************************)
(* Properties of the display names of a compiled document.                 *)
(***************************************************************************)
\* C28: in the document compile returns for a validated plan (its node ids
\* are pairwise distinct), the names of the emitted nodes are pairwise
\* distinct, the trigger node "Trigger" included, so that a key or a target
\* of the connections names exactly one node.
C28_DisplayNamesDistinct ==
    PlanValidated =>
        \A i \in CompileReturns :
            \A k, l \in 1..Len(calls[i].workflow.nodes) :
                k # l => calls[i].workflow.nodes[k].name
                             # calls[i].workflow.nodes[l].name

(***************************************************************************)
(* Properties of the policy engine, over the log of its calls.             *)
(***************************************************************************)
EvaluateCalls == { i \in 1..Len(calls) : calls[i].op = "evaluate" }

RECURSIVE ExpectedCodes(_, _)
\* The codes the rules rs ask for, in order: that of the rule when its
\* predicate returns false, POLICY_EVAL_ERROR when it raises, none when it
\* returns true.
ExpectedCodes(rs, i) ==
    IF i > Len(rs) THEN << >>
    ELSE (CASE RuleOutcome(rs[i], plan) = "false" ->
                   << PolicyCode(rs[i].name) >>
            [] RuleOutcome(rs[i], plan) = "raises" -> << "POLICY_EVAL_ERROR" >>
            [] OTHER -> << >>) \o ExpectedCodes(rs, i + 1)

\* C22: evaluate goes through every registered rule in registration order
\* and returns, in that order, one violation POLICY_<NAME> for each rule
\* whose predicate returns false and one POLICY_EVAL_ERROR for each rule
\* whose predicate raises; a rule whose predicate returns true adds nothing
\* and a raising predicate does not stop the rules after it.
C22_OneViolationPerFailedRule ==
    \A i \in EvaluateCalls :
        [k \in 1..Len(calls[i].violations) |-> calls[i].violations[k].code]
            = ExpectedCodes(calls[i].evaluated, 1)

RECURSIVE RulesAfter(_)
\* The rules the first i calls of the log leave registered.
RulesAfter(i) ==
    IF i = 0 THEN DefaultRules
    ELSE CASE calls[i].op = "add_rule" ->
                  RulesAfter(i - 1) \o << calls[i].rule >>
           [] calls[i].op = "remove_rule" ->
                  SelectSeq(RulesAfter(i - 1),
                            LAMBDA r : r.name # calls[i].name)
           [] OTHER -> RulesAfter(i - 1)

\* C23: remove_rule(name) returns true exactly when a rule of that name was
\* registered, drops every rule of the name and keeps the others in their
\* order; add_rule puts the rule at the end, whatever its name; evaluate
\* runs the rules registered at the time of the call.
C23_RulesFollowCalls ==
    /\ rules = RulesAfter(Len(calls))
    /\ \A i \in 1..Len(calls) :
          /\ calls[i].op = "remove_rule" =>
                (calls[i].returned <=>
                    \E k \in 1..Len(RulesAfter(i - 1)) :
                        RulesAfter(i - 1)[k].name = calls[i].name)
          /\ calls[i].op = "evaluate" =>
                calls[i].evaluated = RulesAfter(i - 1)

\* A second rule named max_nodes was added, both were removed at once, a
\* removal of an unknown name returned false, and evaluate ran the three
\* rules left.
C23_Witness ==
    /\ Len(calls) = 4
    /\ calls[1].op = "add_rule" /\ calls[1].rule.name = "max_nodes"
    /\ calls[2].op = "remove_rule" /\ calls[2].name = "max_nodes"
    /\ calls[2].returned
    /\ calls[3].op = "remove_rule" /\ ~calls[3].returned
    /\ calls[4].op = "evaluate" /\ Len(calls[4].evaluated) = 3
    /\ Len(rules) = 3

(***************************************************************************)
(* Properties of the drivers.                                              *)
(***************************************************************************)
\* C21: a driver hands back a workflow document only for a plan that
\* validate reports valid; for a plan that fails validation every driver
\* run ends in an error and produces no document.
C21_CompileOnlyValidated ==
    \A i \in 1..Len(calls) : calls[i].error = "" => PlanValidated

(***************************************************************************)
(* Properties of the orchestrator, over its last call.                     *)
(***************************************************************************)
SearchCalls == { i \in 1..Len(calls) : calls[i].op = "search" }

\* The additive reference: a tag counts when it equals a word of the query.
ReferenceScore(p, query) ==
    (IF Contains(Lower(p.name), Lower(query)) THEN 10 ELSE 0)
    + 3 * Cardinality({ w \in Words(Lower(query)) :
                          Contains(Lower(p.name), w) })
    + 2 * Cardinality({ w \in Words(Lower(query)) :
                          Contains(Lower(p.description), w) })
    + 5 * Cardinality({ t \in 1..Len(p.tags) :
                          Lower(p.tags[t]) \in Words(Lower(query)) })

\* C27: search returns summaries whose score is positive, by non-increasing
\* score, at most limit of them, the score being +10 when the lowercased
\* query is part of the name, +3 and +2 for each distinct word of the query
\* that is part of the name and of the description, +5 for each tag that
\* equals a word of the query whatever the case; a tag that is only part of
\* the text of the query adds nothing.
C27_SearchFollowsReference ==
    \A i \in SearchCalls :
        LET res == calls[i].results
            hits == { k \in 1..Len(FixtureIndex) :
                        ReferenceScore(FixtureIndex[k], calls[i].query) > 0 }
        IN
        /\ Len(res) = IF calls[i].limit < Cardinality(hits)
                      THEN calls[i].limit ELSE Cardinality(hits)
        /\ \A k \in 1..Len(res) :
              \E h \in hits :
                  /\ res[k].id = FixtureIndex[h].id
                  /\ res[k].score
                       = ReferenceScore(FixtureIndex[h], calls[i].query)
        /\ \A k \in 1..(Len(res) - 1) : res[k].score >= res[k + 1].score
        /\ \A k, l \in 1..Len(res) : k # l => res[k].id # res[l].id

ComposeCalls == { i \in 1..Len(calls) : calls[i].op = "compose" }

\* The errors of the attempt that got this reply; none when its plan
\* validates.
ReplyErrors(reply) ==
    LET r == Validate(reply.plan, EmptyCache, source).report IN
    IF reply.kind = "unparsable" THEN << "YAML parse error" >>
    ELSE [k \in 1..Len(r.violations) |-> ErrorLine(r.violations[k])]

\* The reply parses and validates.
GoodReply(reply) == reply.kind = "plan" /\ ReplyErrors(reply) = << >>

RECURSIVE ErrorsUpTo(_, _)
ErrorsUpTo(replies, k) ==
    IF k = 0 THEN << >>
    ELSE ErrorsUpTo(replies, k - 1) \o ReplyErrors(replies[k])

\* C30: compose with max_retries = n returns after at most n + 1 LLM calls:
\* with success at the first attempt whose reply parses and validates, with
\* the single error "LLM call failed" and no success at the first call that
\* raises, and otherwise without success after n + 1 attempts, its
\* validation_errors being the errors of the attempts in order and the
\* feedback having been appended after every attempt but the last.
C30_ComposeIsBounded ==
    \A i \in ComposeCalls :
        LET n == calls[i].max_retries
            replies == calls[i].replies
            res == calls[i].result
            ends == { k \in 1..(n + 1) :
                        replies[k].kind = "raises" \/ GoodReply(replies[k]) }
            last == IF ends = {} THEN n + 1
                    ELSE CHOOSE k \in ends : \A l \in ends : k <= l
        IN
        /\ res.exc = ""
        /\ res.llm_calls = last
        /\ res.llm_calls <= n + 1
        /\ res.success <=> (ends # {} /\ GoodReply(replies[last]))
        /\ (ends # {} /\ replies[last].kind = "raises")
              => res.validation_errors = << "LLM call failed" >>
        /\ ends = {} =>
              /\ res.validation_errors = ErrorsUpTo(replies, n + 1)
              /\ Len(res.messages) = 2 + 2 * n
====
